---- MODULE Spec2Model ----
(***************************************************************************)
(* Trade ingestion of the auto-trade backend (server.ts + logger/db.ts):   *)
(* logTopstepTradesToDatabase batches running on the one shared sqlite3    *)
(* connection tradesDb, the trades table, the clear operation and the      *)
(* 'new-trade' broadcast.                                                  *)
(*                                                                         *)
(* Granularity.  Handing a statement to the connection is one step (the    *)
(* caller returns to the event loop with the statement pending), and the   *)
(* completion of a statement is one step: the statement is executed        *)
(* against the connection, its JavaScript callback runs, the driver        *)
(* retires the statement and starts what its queue allows, and the part of *)
(* the async loop that the callback resumed runs up to the next statement  *)
(* the batch issues.  The connection starts the statements in the order    *)
(* they were issued; a statement issued inside the synchronous part of a   *)
(* tradesDb.serialize callback runs alone, the others run in parallel and  *)
(* complete in any order.                                                  *)
(*                                                                         *)
(* A statement passed without a callback (BEGIN TRANSACTION, ROLLBACK)     *)
(* reports a failure as an 'error' event of the statement; nothing listens *)
(* to it and the server registers no uncaughtException handler, so the     *)
(* emitted error is thrown and the process terminates.                     *)
(*                                                                         *)
(* The specifications share the variables.  Spec: overlapping syncs on    *)
(* the serving process.  Syncs: syncs that fail before persisting or       *)
(* persist one after the other.  Hub: syncs persisting one after the other *)
(* while sockets connect and disconnect.  Boot (FairBoot with fairness):   *)
(* the startup chain from module load to server.listen, with the backfill  *)
(* as sync 1.  Orders, Auth, Accounts: the HTTP endpoints of the serving   *)
(* process by group.  Bare: the process started without the API key, its   *)
(* startup chain and its endpoints.  Timers (FairTimers with fairness):    *)
(* what the process schedules by itself.  Shapes: syncs of single raw      *)
(* records.                                                                *)
(* Listing: listing and clearing the table while syncs run.  Calls         *)
(* (Settling with fairness): calls of the persister one after the other,   *)
(* every statement succeeding or failing.  Opening: the startup chain and  *)
(* the requests accepted once the server listens.  Live: the dashboard     *)
(* (TradeTable.tsx, Analytics.tsx) connected to the serving process.       *)
(* Client: the dashboard alone, handed any response and any packet.        *)
(***************************************************************************)
EXTENDS Integers, Sequences, FiniteSets, Bags, TLC

\* ---------------------------------------------------------------- bounds
\* calls of the persister; a third call is the first that can open a
\* transaction after the ROLLBACK of an earlier one
NumBatches == 3
\* calls of the persister made one after the other (StartAlone)
NumSyncs == 2
MaxBatch == 2
MaxWork == 4
NumSockets == 2
NumTokens == 2
NumCallers == 1
NumClients == 2
MaxAccounts == 2
MaxRows == 2        \* rows in a response the dashboard is handed
MaxEvents == 3      \* packets the dashboard is handed

Batches == 1..NumBatches
Sockets == 1..NumSockets

\* the session tokens the broker issues
Tokens == 1..NumTokens

\* ------------------------------------------------- values of a raw record
\* JavaScript null and undefined, encoded outside the ranges of the numbers
\* the bounded inputs use.
Null == -1
Undefined == -2

\* process.env.<NAME> that was never assigned (reads as undefined, falsy)
Unset == 0
\* process.env.<NAME> = undefined (or null): the variable then holds the text
\* "undefined" (or "null"), which is truthy
NoValueText == -4

\* trade.<f> : a field that is missing from the object reads as undefined
Get(t, f) == IF f \in DOMAIN t THEN t[f] ELSE Undefined

\* The raw records of the broker's trade search.
T1 == [orderId |-> 1, accountId |-> 1, contractId |-> 1, creationTimestamp |-> 1,
       price |-> 10, profitAndLoss |-> 5, fees |-> 1, side |-> 1, size |-> 1]
\* same orderId and creationTimestamp as T1, other account
T2 == [orderId |-> 1, accountId |-> 2, contractId |-> 1, creationTimestamp |-> 1,
       price |-> 10, profitAndLoss |-> 5, fees |-> 1, side |-> 0, size |-> 1]
\* not yet realized: profitAndLoss is null
T3 == [orderId |-> 2, accountId |-> 1, contractId |-> 1, creationTimestamp |-> 2,
       price |-> 10, profitAndLoss |-> Null, fees |-> 1, side |-> 0, size |-> 1]
\* not yet realized: the profitAndLoss field is missing
T4 == [orderId |-> 3, accountId |-> 1, contractId |-> 1, creationTimestamp |-> 2,
       price |-> 10, fees |-> 1, side |-> 1, size |-> 1]

\* The trades of the account at the broker, in the order the search returns
\* them; a sync receives the trades of its window.
Remote == <<T1, T1, T2, T3, T4>>

VARIABLES
  alive,      \* the server process is running
  store,      \* the trades table as the connection sees it: a bag of rows
  committed,  \* the durable content of the trades table: a bag of rows
  txOpen,     \* the connection is inside a transaction
  locked,     \* tradesDb: the call started last was an exclusive one
  dbq,        \* tradesDb: the calls queued on the connection, in order
  run,        \* tradesDb: the statements started and not yet completed
  pc,         \* per sync: "idle", "running", "resolved", "rejected", "failed"
  trades,     \* per batch: the argument of logTopstepTradesToDatabase
  inserted,   \* per batch: the inserted counter
  skipped,    \* per batch: the skipped counter
  events,     \* the 'new-trade' events emitted so far, in order: the
              \* emitting batch, the index of the record, the payload and
              \* the sockets connected when io.emit was called
  cleared,    \* the trades table has been cleared
  startRows,  \* per batch: number of rows in the table when the batch started
  cause,      \* per batch: why it rejected or failed ("none", "io", ...)
  seq,        \* per batch: started when every earlier batch had resolved
  phase,      \* position of the startup chain at the end of server.ts
  creds,      \* which of TOPSTEP_USERNAME and TOPSTEP_API_KEY are set: "both",
              \* "username" (no key) or "none" (no username)
  token,      \* process.env.TOPSTEP_API_SESSION_TOKEN
  account,    \* process.env.TOPSTEP_ACCOUNT_ID
  initialSyncDone,  \* the flag of the same name
  listening,  \* server.listen has been called
  cronArmed,  \* the token refresh job is scheduled
  calls,      \* how often each startup request / the backfill was invoked
  errs,       \* the startup steps that have failed
  subs,       \* the sockets connected to io
  inbox,      \* per socket: the 'new-trade' packets sent to it, in order
  accountName,  \* process.env.ACCOUNT_NAME
  req,        \* per client request: the endpoint (ep), how far its handler
              \* has come (at), what it was given (arg), the account id it
              \* sent to the broker (sent), the broker's answer it examined
              \* (got), the outcome of its order-triggered sync (sync) and
              \* the batch it handed to the persister (batch)
  res,        \* per client request: the response sent (status 0: none yet)
  view,       \* the dashboard: the trades state of TradeTable / Analytics
  seen,       \* the dashboard: how many packets of its socket it has handled
  applied     \* the dashboard: the requests whose response it has handled

\* the state of the startup chain
boot == <<phase, creds, token, account, initialSyncDone, listening,
          cronArmed, calls, errs>>

\* the state of the trade ingestion
ingest == <<alive, store, committed, txOpen, locked, dbq, run, pc, trades,
            inserted, skipped, events, cleared, startRows, cause, seq>>

\* the state of the HTTP endpoints
api == <<accountName, req, res>>

\* the state of the dashboard in the browser
client == <<view, seen, applied>>

\* the state of the process outside the trade ingestion, and of its client
proc == <<boot, subs, inbox, api, client>>

vars == <<alive, store, committed, txOpen, locked, dbq, run, pc, trades,
          inserted, skipped, events, cleared, startRows, cause, seq, proc>>

\* ------------------------------------------------- logTopstepTradesToDatabase
\* for (const trade of trades) { if (trade.profitAndLoss === null) continue; ...
\* the first index >= i whose record is not skipped by that test
\* the loop without the null test
NextIdxNoSkip(ts, i) == i

RECURSIVE NextIdx(_, _)
NextIdx(ts, i) ==
  IF i > Len(ts) THEN i
  ELSE IF Get(ts[i], "profitAndLoss") = Null THEN NextIdx(ts, i + 1)
  ELSE i

\* a statement of batch b on record i of its input,
\* issued inside (ser) or outside the synchronous part of tradesDb.serialize
Stmt(b, o, k, s) == [by |-> b, op |-> o, i |-> k, ser |-> s]

\* The loop resumed at index i: it issues the existence check of the next
\* record that is not skipped, or COMMIT when the records are exhausted.
Issue(b, ts, i, s) ==
  LET j == NextIdx(ts, i)
  IN  IF j > Len(ts) THEN Stmt(b, "COMMIT", 0, s) ELSE Stmt(b, "SELECT", j, s)

\* trade.fees * 2 (null * 2 is 0, undefined * 2 is NaN)
NaN == -3
Double(v) == IF v = Null THEN 0 ELSE IF v \in {Undefined, NaN} THEN NaN ELSE 2 * v

\* a side text that knows two sides only
SideTextTwoSided(v) == IF v = 1 THEN "buy" ELSE IF v = 0 THEN "sell" ELSE "none"

\* const sideText = trade.side === 1 ? "buy" : "sell"
SideText(v) == IF v = 1 THEN "buy" ELSE "sell"

TradeToInsert(t) ==
  [broker |-> "topstep",
   accountId |-> Get(t, "accountId"),
   contractId |-> Get(t, "contractId"),
   creationTimestamp |-> Get(t, "creationTimestamp"),
   price |-> Get(t, "price"),
   profitAndLoss |-> Get(t, "profitAndLoss"),
   fees |-> Double(Get(t, "fees")),
   side |-> SideText(Get(t, "side")),
   size |-> Get(t, "size"),
   orderId |-> Get(t, "orderId")]

\* ------------------------------------------------------------ trades table
\* A parameter that is undefined is left unbound and NaN is stored as NULL.
Bind(v) == IF v \in {Undefined, NaN} THEN Null ELSE v

\* the row that the INSERT of tradeToInsert p writes
Row(p) ==
  [broker |-> p.broker,
   accountId |-> Bind(p.accountId),
   contractId |-> Bind(p.contractId),
   creationTimestamp |-> Bind(p.creationTimestamp),
   price |-> Bind(p.price),
   profitAndLoss |-> Bind(p.profitAndLoss),
   fees |-> Bind(p.fees),
   side |-> p.side,
   size |-> Bind(p.size),
   orderId |-> Bind(p.orderId)]

\* CREATE TABLE trades: every column but profitAndLoss is NOT NULL
NotNullOk(r) ==
  /\ r.accountId # Null /\ r.contractId # Null /\ r.creationTimestamp # Null
  /\ r.price # Null /\ r.fees # Null /\ r.size # Null /\ r.orderId # Null

\* PRIMARY KEY(accountId, orderId, creationTimestamp)
PrimaryKey(r) == <<r.accountId, r.orderId, r.creationTimestamp>>

\* the table declared without its primary key
PkFreeNoKey(rows, r) == TRUE

PkFree(rows, r) == \A x \in BagToSet(rows) : PrimaryKey(x) # PrimaryKey(r)

\* SELECT COUNT(*) FROM trades WHERE broker = ? AND orderId = ?
\*   AND creationTimestamp = ?   with ["topstep", orderId, creationTimestamp]
\* the existence check with its two key parameters bound in the wrong order
SelectCountSwapped(rows, t) ==
  LET match == {x \in BagToSet(rows) :
                  /\ x.broker = "topstep"
                  /\ x.orderId = Bind(Get(t, "creationTimestamp"))
                  /\ x.creationTimestamp = Bind(Get(t, "orderId"))}
  IN  BagCardinality([x \in match |-> CopiesIn(x, rows)])

SelectCount(rows, t) ==
  LET match == {x \in BagToSet(rows) :
                  /\ x.broker = "topstep"
                  /\ x.orderId = Bind(Get(t, "orderId"))
                  /\ x.creationTimestamp = Bind(Get(t, "creationTimestamp"))}
  IN  BagCardinality([x \in match |-> CopiesIn(x, rows)])

\* ------------------------------------------------------------------- Init
\* tradesDb is open, the trades table exists and is empty, no sync has run
Idle ==
  /\ alive = TRUE
  /\ store = EmptyBag
  /\ committed = EmptyBag
  /\ txOpen = FALSE
  /\ locked = FALSE
  /\ dbq = <<>>
  /\ run = {}
  /\ pc = [b \in Batches |-> "idle"]
  /\ trades = [b \in Batches |-> <<>>]
  /\ inserted = [b \in Batches |-> 0]
  /\ skipped = [b \in Batches |-> 0]
  /\ events = <<>>
  /\ cleared = FALSE
  /\ startRows = [b \in Batches |-> 0]
  /\ cause = [b \in Batches |-> "none"]
  /\ seq = [b \in Batches |-> FALSE]

\* TOPSTEP_USERNAME and TOPSTEP_API_KEY are both set
Credentials == creds = "both"
\* TOPSTEP_USERNAME is set
Username == creds # "none"

\* !x is false: the variable holds a non-empty text
Truthy(x) == x # Unset

\* response.data.token of a 2xx answer of Auth/loginKey: a token, or null
\* when the broker reports a refused login in the body (success: false)
AuthAnswers == Tokens \cup {Null}

\* process.env.<NAME> = v
Stored(v) == IF v \in {Undefined, Null} THEN NoValueText ELSE v

\* characters: 1, 2 are lower-case letters and 11, 12 their capitals
Upper(c) == IF c < 10 THEN c + 10 ELSE c

\* String.prototype.toUpperCase
ToUpperCase(str) == [i \in 1..Len(str) |-> Upper(str[i])]

\* String.prototype.startsWith
StartsWith(str, prefix) ==
  /\ Len(prefix) <= Len(str)
  /\ SubSeq(str, 1, Len(prefix)) = prefix

\* the accounts the broker may list
Account1 == [id |-> 1, name |-> <<11, 2>>, canTrade |-> TRUE]
Account2 == [id |-> 2, name |-> <<1, 1>>, canTrade |-> TRUE]
Account3 == [id |-> 3, name |-> <<1, 2>>, canTrade |-> FALSE]
AccountIds == {Account1.id, Account2.id, Account3.id}

\* values of ACCOUNT_NAME
Prefixes == {<<1>>, <<1, 12>>, <<2>>}

RECURSIVE SeqsUpTo(_, _)
\* the sequences over S of at most n elements
SeqsUpTo(S, n) ==
  IF n = 0 THEN {<<>>}
  ELSE LET shorter == SeqsUpTo(S, n - 1)
       IN shorter \cup {Append(q, x) : q \in shorter, x \in S}

\* response.data of a 2xx answer of Account/search: it holds an accounts
\* array, or it holds none
AccountAnswers ==
  {[accounts |-> l] : l \in SeqsUpTo({Account1, Account2, Account3},
                                     MaxAccounts)}
    \cup {[success |-> FALSE]}

\* Array.isArray(response.data.accounts)
HasAccounts(answer) == "accounts" \in DOMAIN answer

\* ACCOUNT_NAME is not set: startsWith(undefined) searches for the text
\* "undefined"; character 0 stands for it, and no account's name holds it
NoName == <<0>>

\* acc.name.toUpperCase().startsWith(name?.toUpperCase()) && acc.canTrade
Matches(acc, name) ==
  /\ StartsWith(ToUpperCase(acc.name), ToUpperCase(name))
  /\ acc.canTrade

\* accounts.find(...): the position of the first matching entry in list
\* order, 0 when find returns undefined
Find(accounts, name) ==
  LET hits == {i \in 1..Len(accounts) : Matches(accounts[i], name)}
  IN IF hits = {} THEN 0 ELSE CHOOSE i \in hits : \A j \in hits : i <= j

\* TOPSTEP_ACCOUNT_ID after the account list has been examined: the id of the
\* entry found is stored; without an array or without a match nothing is
\* assigned
Resolved(answer, name, old) ==
  IF ~HasAccounts(answer) THEN old
  ELSE LET found == Find(answer.accounts, name)
       IN IF found = 0 THEN old ELSE answer.accounts[found].id

\* the dashboard has not been opened
NoClient ==
  /\ view = <<>>
  /\ seen = 0
  /\ applied = {}

\* the request slots of the HTTP server
Reqs == 1..NumBatches

\* no request has arrived
NoRequests ==
  /\ req = [r \in Reqs |-> [ep |-> "none", at |-> "new", arg |-> Unset,
                            sent |-> Unset, got |-> Unset, sync |-> "none",
                            batch |-> 0, fwd |-> 0]]
  /\ res = [r \in Reqs |-> [status |-> 0, body |-> "none"]]

\* the startup chain has completed: credentials, token and account id are
\* set, the backfill has run, the server listens and no socket is connected
Serving ==
  /\ phase = "up"
  /\ creds = "both"
  /\ token = 1
  /\ account = Account1.id
  /\ initialSyncDone = TRUE
  /\ listening = TRUE
  /\ cronArmed = TRUE
  /\ calls = [login |-> 1, accounts |-> 1, backfill |-> 1]
  /\ errs = {}
  /\ subs = {}
  /\ inbox = [h \in Sockets |-> <<>>]
  /\ accountName = <<1>>
  /\ NoRequests
  /\ NoClient

\* The trade ingestion is studied on the serving process with an empty table.
Init == Idle /\ Serving

\* ------------------------------------------- the connection's call queue
\* The one connection tradesDb starts a statement at once when nothing
\* forbids it and queues it otherwise.  A statement issued in serialize mode
\* is exclusive: it waits until no statement is pending, and the statements
\* issued while it runs queue up behind the calls already waiting.
Db == [q |-> dbq, r |-> run, l |-> locked]

\* tradesDb.run / tradesDb.get: the statement s is handed to the connection
Schedule(d, s) ==
  IF (d.l \/ s.ser) /\ d.r # {}
  THEN [d EXCEPT !.q = Append(@, s)]
  ELSE [d EXCEPT !.r = @ \cup {s}, !.l = FALSE]

\* the connection starts the queued calls that may start now
RECURSIVE Process(_)
Process(d) ==
  IF /\ d.q # <<>>
     /\ (~d.l \/ d.r = {})
     /\ ~(Head(d.q).ser /\ d.r # {})
  THEN Process([q |-> Tail(d.q), r |-> d.r \cup {Head(d.q)}, l |-> Head(d.q).ser])
  ELSE d

\* The statement s completes and its callback itself hands the statements
\* more to the connection (the INSERT issued inside the SELECT's callback)
\* while s still counts as pending; then s is retired and the queue is
\* processed.
Done(s, more) ==
  LET d1 == IF more = <<>> THEN Db ELSE Schedule(Db, more[1])
  IN  Process([d1 EXCEPT !.r = @ \ {s}])

\* The statement s completes and its callback only settles the promise the
\* loop awaits (resolveTrade / rejectTrade): s is retired and the queue is
\* processed first, and the continuation of the loop, a microtask that runs
\* when the driver's completion handler has returned, hands the statements
\* more to the connection afterwards.
Resume(s, more) ==
  LET d1 == Process([Db EXCEPT !.r = @ \ {s}])
  IN  IF more = <<>> THEN d1 ELSE Schedule(d1, more[1])

SetDb(d) ==
  /\ dbq' = d.q
  /\ run' = d.r
  /\ locked' = d.l

\* the statements of batch b with operation o that may complete now
Cur(b, o) == IF alive THEN {s \in run : s.by = b /\ s.op = o} ELSE {}

\* ---------------------------------------------------------------- actions
\* the arguments a sync may pass to logTopstepTradesToDatabase: the windows
\* of at most MaxBatch consecutive remote trades
Inputs ==
  {SubSeq(Remote, w[1], w[1] + w[2] - 1) :
     w \in {v \in (1..Len(Remote)) \X (0..MaxBatch) : v[1] + v[2] - 1 <= Len(Remote)}}

\* records handed to the batches started so far
Work == LET RECURSIVE Sum(_)
            Sum(b) == IF b = 0 THEN 0 ELSE Len(trades[b]) + Sum(b - 1)
        IN  Sum(NumBatches)

\* the statements of batch b that were issued and have not completed
Outstanding(b) ==
  {s \in run : s.by = b} \cup {dbq[k] : k \in {n \in DOMAIN dbq : dbq[n].by = b}}

\* A sync (backfill, order-triggered or administrative) received
\* response.data.trades and calls logTopstepTradesToDatabase(ts): the
\* synchronous part of the serialize callback issues BEGIN TRANSACTION and
\* runs the loop up to its first await (or to COMMIT when no record is left
\* to check).
StartWith(b, ts) ==
  /\ alive
  /\ pc[b] = "idle"
  /\ \A c \in Batches : c < b => pc[c] # "idle"
  /\ Work + Len(ts) <= MaxWork
  /\ trades' = [trades EXCEPT ![b] = ts]
  /\ SetDb(Process(Schedule(Schedule(Db, Stmt(b, "BEGIN", 0, TRUE)),
                            Issue(b, ts, 1, TRUE))))
  /\ pc' = [pc EXCEPT ![b] = "running"]
  /\ startRows' = [startRows EXCEPT ![b] = BagCardinality(store)]
  /\ seq' = [seq EXCEPT ![b] = \A c \in Batches :
                                  c < b => pc[c] = "resolved" /\ Outstanding(c) = {}]
  /\ UNCHANGED <<alive, store, committed, txOpen, inserted, skipped,
                 events, cleared, cause>>

\* logTopstepTradesToDatabase(trades) is called with a window of the
\* broker's trades
StartBatch(b) == \E ts \in Inputs : StartWith(b, ts)

\* logTopstepTradesToDatabase(trades) is called by a caller whose own state
\* is left out
Start(b) ==
  /\ StartBatch(b)
  /\ UNCHANGED proc

\* the failure path that still hands a trade list to the persister
SyncFailPersist(b) ==
  /\ alive
  /\ pc[b] = "idle"
  /\ \A c \in Batches : c < b => pc[c] # "idle"
  /\ \E ts \in Inputs :
       /\ Work + Len(ts) <= MaxWork
       /\ trades' = [trades EXCEPT ![b] = ts]
       /\ SetDb(Process(Schedule(Schedule(Db, Stmt(b, "BEGIN", 0, TRUE)),
                                 Issue(b, ts, 1, TRUE))))
  /\ pc' = [pc EXCEPT ![b] = "failed"]
  /\ cause' = [cause EXCEPT ![b] = "fetch"]
  /\ UNCHANGED proc
  /\ UNCHANGED <<alive, store, committed, txOpen, inserted, skipped,
                 events, cleared, startRows, seq>>

\* A sync (backfill, order-triggered or administrative) ends before it
\* reaches logTopstepTradesToDatabase: the session token (for the backfill
\* and the order-triggered sync also the account id) is not set and the
\* sync returns, or the Trade/search request throws and the catch block
\* logs the error (and answers 500 for the administrative sync).
SyncFail(b) ==
  /\ alive
  /\ pc[b] = "idle"
  /\ \A c \in Batches : c < b => pc[c] # "idle"
  /\ pc' = [pc EXCEPT ![b] = "failed"]
  /\ \E why \in {"token", "fetch"} : cause' = [cause EXCEPT ![b] = why]
  /\ UNCHANGED proc
  /\ UNCHANGED <<alive, store, committed, txOpen, locked, dbq, run, trades,
                 inserted, skipped, events, cleared, startRows, seq>>

\* BEGIN TRANSACTION opens a transaction on the connection.
BeginOk(b) ==
  /\ ~txOpen
  /\ \E s \in Cur(b, "BEGIN") : SetDb(Done(s, <<>>))
  /\ txOpen' = TRUE
  /\ UNCHANGED proc
  /\ UNCHANGED <<alive, store, committed, pc, trades, inserted, skipped,
                 events, cleared, startRows, cause, seq>>

\* a batch has settled and the function awaiting it has not been resumed
\* yet: the continuation of an await runs before the connection delivers
\* its next result
Resuming ==
  \/ phase = "search" /\ pc[1] \in {"resolved", "rejected"}
  \/ \E r \in Reqs : /\ req[r].at = "persist"
                     /\ pc[req[r].batch] \in {"resolved", "rejected"}

\* BEGIN TRANSACTION inside a transaction, or ROLLBACK outside one, fails.
\* No callback was passed, so the error is emitted as an 'error' event
\* without a listener: it is thrown and ends the process; the open
\* transaction is lost.
UnhandledError(b) ==
  /\ ~Resuming
  /\ \/ Cur(b, "BEGIN") # {} /\ txOpen
     \/ Cur(b, "ROLLBACK") # {} /\ ~txOpen
  /\ alive' = FALSE
  /\ store' = committed
  /\ txOpen' = FALSE
  /\ SetDb([q |-> <<>>, r |-> {}, l |-> FALSE])
  /\ UNCHANGED proc
  /\ UNCHANGED <<committed, pc, trades, inserted, skipped, events,
                 cleared, startRows, cause, seq>>

\* What a failed statement leaves on the connection.  The engine undoes the
\* statement alone (a constraint violation, SQLITE_BUSY, an error of the
\* statement's text), or, on a storage error (SQLITE_FULL, SQLITE_IOERR)
\* inside a transaction, rolls the whole transaction back: the rows written
\* since BEGIN are gone and the connection is in autocommit mode again.
Fault ==
  \/ UNCHANGED <<store, txOpen>>
  \/ /\ txOpen
     /\ store' = committed
     /\ txOpen' = FALSE

\* rejectTrade(err) -> the catch block: tradesDb.run("ROLLBACK"); reject(error)
Reject(b, s, why) ==
  /\ pc' = [pc EXCEPT ![b] = "rejected"]
  /\ cause' = [cause EXCEPT ![b] = why]
  /\ SetDb(Resume(s, <<Stmt(b, "ROLLBACK", 0, FALSE)>>))

\* The existence check fails with a storage error.
SelectError(b) ==
  /\ \E s \in Cur(b, "SELECT") : Reject(b, s, "io")
  /\ Fault
  /\ UNCHANGED proc
  /\ UNCHANGED <<alive, committed, trades, inserted, skipped, events,
                 cleared, startRows, seq>>

\* row.count === 0: the INSERT of the mapped record is issued.
SelectAbsent(b) ==
  /\ \E s \in Cur(b, "SELECT") :
       /\ SelectCount(store, trades[b][s.i]) = 0
       /\ SetDb(Done(s, <<Stmt(b, "INSERT", s.i, FALSE)>>))
  /\ UNCHANGED proc
  /\ UNCHANGED <<alive, store, committed, txOpen, pc, trades, inserted,
                 skipped, events, cleared, startRows, cause, seq>>

\* the duplicate branch without skipped++
SelectPresentNoCount(b) ==
  /\ \E s \in Cur(b, "SELECT") :
       /\ SelectCount(store, trades[b][s.i]) > 0
       /\ SetDb(Resume(s, <<Issue(b, trades[b], s.i + 1, FALSE)>>))
  /\ UNCHANGED proc
  /\ UNCHANGED <<alive, store, committed, txOpen, pc, trades, inserted,
                 skipped, events, cleared, startRows, cause, seq>>

\* row.count > 0: skipped++ and the loop goes on.
SelectPresent(b) ==
  /\ \E s \in Cur(b, "SELECT") :
       /\ SelectCount(store, trades[b][s.i]) > 0
       /\ SetDb(Resume(s, <<Issue(b, trades[b], s.i + 1, FALSE)>>))
  /\ skipped' = [skipped EXCEPT ![b] = @ + 1]
  /\ UNCHANGED proc
  /\ UNCHANGED <<alive, store, committed, txOpen, pc, trades, inserted,
                 events, cleared, startRows, cause, seq>>

\* io.emit that also reaches the sockets that have disconnected
EmitToAll(box, to, k, p) ==
  [h \in Sockets |-> Append(box[h], [k |-> k, trade |-> p])]

\* io.emit("new-trade", trade): one packet, carrying the number k of the
\* event and the payload, is sent to each socket connected now
Emit(box, to, k, p) ==
  [h \in Sockets |-> IF h \in to THEN Append(box[h], [k |-> k, trade |-> p])
                     ELSE box[h]]

\* the INSERT callback without the broadcastNewTrade call
InsertOkNoBroadcast(b) ==
  /\ \E s \in Cur(b, "INSERT") :
       LET p == TradeToInsert(trades[b][s.i])
       IN  /\ NotNullOk(Row(p))
           /\ PkFree(store, Row(p))
           /\ store' = store (+) SetToBag({Row(p)})
           /\ committed' = IF txOpen THEN committed ELSE store (+) SetToBag({Row(p)})
           /\ SetDb(Resume(s, <<Issue(b, trades[b], s.i + 1, FALSE)>>))
  /\ inserted' = [inserted EXCEPT ![b] = @ + 1]
  /\ UNCHANGED proc
  /\ UNCHANGED <<alive, txOpen, pc, trades, skipped, events, cleared,
                 startRows, cause, seq>>

\* the INSERT callback with the event put in front of the earlier ones
InsertOkPrepend(b) ==
  /\ \E s \in Cur(b, "INSERT") :
       LET p == TradeToInsert(trades[b][s.i])
       IN  /\ NotNullOk(Row(p))
           /\ PkFree(store, Row(p))
           /\ store' = store (+) SetToBag({Row(p)})
           /\ committed' = IF txOpen THEN committed ELSE store (+) SetToBag({Row(p)})
           /\ events' = <<[by |-> b, i |-> s.i, trade |-> p, to |-> subs]>> \o events
           /\ inbox' = Emit(inbox, subs, Len(events) + 1, p)
           /\ SetDb(Resume(s, <<Issue(b, trades[b], s.i + 1, FALSE)>>))
  /\ inserted' = [inserted EXCEPT ![b] = @ + 1]
  /\ UNCHANGED <<boot, subs, api, client>>
  /\ UNCHANGED <<alive, txOpen, pc, trades, skipped, cleared, startRows,
                 cause, seq>>

\* The INSERT succeeds: inserted++, broadcastNewTrade(tradeToInsert), and the
\* loop goes on.
InsertOk(b) ==
  /\ \E s \in Cur(b, "INSERT") :
       LET p == TradeToInsert(trades[b][s.i])
       IN  /\ NotNullOk(Row(p))
           /\ PkFree(store, Row(p))
           /\ store' = store (+) SetToBag({Row(p)})
           /\ committed' = IF txOpen THEN committed ELSE store (+) SetToBag({Row(p)})
           /\ events' = Append(events, [by |-> b, i |-> s.i, trade |-> p,
                                         to |-> subs])
           /\ inbox' = Emit(inbox, subs, Len(events) + 1, p)
           /\ SetDb(Resume(s, <<Issue(b, trades[b], s.i + 1, FALSE)>>))
  /\ inserted' = [inserted EXCEPT ![b] = @ + 1]
  /\ UNCHANGED <<boot, subs, api, client>>
  /\ UNCHANGED <<alive, txOpen, pc, trades, skipped, cleared, startRows,
                 cause, seq>>

\* The INSERT succeeds and broadcastNewTrade throws: the call stands in the
\* INSERT callback after inserted++ with no try/catch around it, so
\* resolveTrade() is not reached and the exception leaves the callback
\* uncaught; the process terminates and the open transaction is lost.
BroadcastError(b) ==
  /\ \E s \in Cur(b, "INSERT") :
       LET r == Row(TradeToInsert(trades[b][s.i]))
       IN  /\ NotNullOk(r)
           /\ PkFree(store, r)
           /\ committed' = IF txOpen THEN committed ELSE store (+) SetToBag({r})
           /\ store' = committed'
  /\ inserted' = [inserted EXCEPT ![b] = @ + 1]
  /\ cause' = [cause EXCEPT ![b] = "broadcast"]
  /\ alive' = FALSE
  /\ txOpen' = FALSE
  /\ SetDb([q |-> <<>>, r |-> {}, l |-> FALSE])
  /\ UNCHANGED proc
  /\ UNCHANGED <<pc, trades, skipped, events, cleared, startRows, seq>>

\* The INSERT fails: a constraint of the table is violated, or, whatever the
\* row, the database is busy or a storage error occurs (the engine takes the
\* write lock before it checks the constraints).
InsertError(b) ==
  /\ \E s \in Cur(b, "INSERT") :
       LET r == Row(TradeToInsert(trades[b][s.i]))
       IN  \/ /\ ~(NotNullOk(r) /\ PkFree(store, r))
              /\ Reject(b, s, "constraint")
              /\ UNCHANGED <<store, txOpen>>
           \/ /\ Reject(b, s, "io")
              /\ Fault
  /\ UNCHANGED proc
  /\ UNCHANGED <<alive, committed, trades, inserted, skipped, events,
                 cleared, startRows, seq>>

\* COMMIT ends the transaction: resolve({ inserted, skipped }).
CommitOk(b) ==
  /\ txOpen
  /\ \E s \in Cur(b, "COMMIT") : SetDb(Done(s, <<>>))
  /\ txOpen' = FALSE
  /\ committed' = store
  /\ pc' = [pc EXCEPT ![b] = "resolved"]
  /\ UNCHANGED proc
  /\ UNCHANGED <<alive, store, trades, inserted, skipped, events,
                 cleared, startRows, cause, seq>>

\* COMMIT fails: the callback logs and calls reject(err); no ROLLBACK is
\* issued.  Outside a transaction the statement always fails ("cannot
\* commit - no transaction is active"); inside one it fails when the
\* database is busy, and the transaction stays open with the batch's rows in
\* it, or on a storage error, and the engine rolls the transaction back.
CommitError(b) ==
  /\ \E s \in Cur(b, "COMMIT") : SetDb(Done(s, <<>>))
  /\ pc' = [pc EXCEPT ![b] = "rejected"]
  /\ cause' = [cause EXCEPT ![b] = IF txOpen THEN "io" ELSE "commit"]
  /\ Fault
  /\ UNCHANGED proc
  /\ UNCHANGED <<alive, committed, trades, inserted, skipped, events,
                 cleared, startRows, seq>>

\* ROLLBACK undoes every change made on the connection since BEGIN.
RollbackOk(b) ==
  /\ txOpen
  /\ \E s \in Cur(b, "ROLLBACK") : SetDb(Done(s, <<>>))
  /\ txOpen' = FALSE
  /\ store' = committed
  /\ UNCHANGED proc
  /\ UNCHANGED <<alive, committed, pc, trades, inserted, skipped, events,
                 cleared, startRows, cause, seq>>

\* a request reaches the handler of slot r
Arrives(r) ==
  /\ alive /\ listening
  /\ req[r].at = "new"
  /\ \A c \in Reqs : c < r => req[c].at # "new"

\* res.status(status).json(body)
Reply(r, status, body) ==
  res' = [res EXCEPT ![r] = [status |-> status, body |-> body]]

\* the clients of the order, alert and data endpoints
Callers == 1..NumCallers

\* DELETE /api/trades: the handler hands tradesDb.run("DELETE FROM trades")
\* to the connection and returns to the event loop; the statement is pending
\* from then on, started or queued like any other call.  A request may
\* arrive while the DELETE of an earlier one is pending.
ClearTrades(r) ==
  /\ Arrives(r)
  /\ SetDb(Schedule(Db, Stmt(0, "DELETE", r, FALSE)))
  /\ req' = [req EXCEPT ![r].ep = "clear", ![r].at = "delete"]
  /\ UNCHANGED <<alive, store, committed, txOpen, pc, trades, inserted,
                 skipped, events, cleared, startRows, cause, seq, boot,
                 subs, inbox, client, res, accountName>>

\* The DELETE executes: every row visible on the connection is removed,
\* inside the open transaction when there is one; the callback answers 200.
DeleteOk(r) ==
  /\ req[r].at = "delete"
  /\ \E s \in Cur(0, "DELETE") : s.i = r /\ SetDb(Done(s, <<>>))
  /\ cleared' = TRUE
  /\ store' = EmptyBag
  /\ committed' = IF txOpen THEN committed ELSE EmptyBag
  /\ Reply(r, 200, "cleared")
  /\ req' = [req EXCEPT ![r].at = "done"]
  /\ UNCHANGED <<alive, txOpen, pc, trades, inserted, skipped, events,
                 startRows, cause, seq, boot, subs, inbox, client,
                 accountName>>

\* The DELETE fails: the callback logs and answers 500, and no row is
\* deleted; a storage error inside the open transaction of a batch rolls
\* that transaction back.
DeleteError(r) ==
  /\ req[r].at = "delete"
  /\ \E s \in Cur(0, "DELETE") : s.i = r /\ SetDb(Done(s, <<>>))
  /\ Fault
  /\ Reply(r, 500, "error")
  /\ req' = [req EXCEPT ![r].at = "done"]
  /\ UNCHANGED <<alive, committed, pc, trades, inserted, skipped, events,
                 cleared, startRows, cause, seq, boot, subs, inbox, client,
                 accountName>>

Next ==
  \/ \E b \in Batches : Start(b)
  \/ \E b \in Batches : BeginOk(b)
  \/ \E b \in Batches : UnhandledError(b)
  \/ \E b \in Batches : SelectError(b)
  \/ \E b \in Batches : SelectAbsent(b)
  \/ \E b \in Batches : SelectPresent(b)
  \/ \E b \in Batches : InsertOk(b)
  \/ \E b \in Batches : BroadcastError(b)
  \/ \E b \in Batches : InsertError(b)
  \/ \E b \in Batches : CommitOk(b)
  \/ \E b \in Batches : CommitError(b)
  \/ \E b \in Batches : RollbackOk(b)
  \/ \E r \in Callers : ClearTrades(r)
  \/ \E r \in Callers : DeleteOk(r)
  \/ \E r \in Callers : DeleteError(r)

Spec == Init /\ [][Next]_vars

TypeOK ==
  /\ alive \in BOOLEAN
  /\ txOpen \in BOOLEAN
  /\ locked \in BOOLEAN
  /\ \A b \in Batches : pc[b] \in {"idle", "running", "resolved", "rejected", "failed"}
  /\ \A b \in Batches : cause[b] \in {"none", "io", "constraint", "commit", "token", "fetch",
                                    "broadcast"}
  /\ ~txOpen => store = committed

\* ------------------------------------------------------ derived notions
\* the dedup key of the data model: (broker, accountId, orderId, creationTimestamp)
DedupKey(r) == <<r.broker, r.accountId, r.orderId, r.creationTimestamp>>

Rows == BagToSet(store)

\* no statement has failed with a storage error: none of a batch, and none
\* of GET or DELETE /api/trades
NoFault ==
  /\ \A b \in Batches : cause[b] # "io"
  /\ \A r \in Reqs : ~(req[r].ep \in {"trades", "clear"} /\ res[r].status = 500)

\* DELETE /api/trades has not been requested
NoClear == \A r \in Reqs : req[r].ep # "clear"

\* the batch has settled and none of its statements is outstanding
Ended(b) == pc[b] \in {"resolved", "rejected"} /\ Outstanding(b) = {}

\* the keys of the INSERTs batch b has issued (after it saw count = 0) that
\* have not executed yet
PendingInserts(b) ==
  {DedupKey(Row(TradeToInsert(trades[b][s.i]))) :
     s \in {x \in Outstanding(b) : x.op = "INSERT"}}

\* number of records of ts whose profitAndLoss is not null
RECURSIVE NonNullCount(_)
NonNullCount(ts) ==
  IF ts = <<>> THEN 0
  ELSE (IF Get(Head(ts), "profitAndLoss") = Null THEN 0 ELSE 1) + NonNullCount(Tail(ts))

\* the events batch b emitted
EventsOf(b) == {k \in DOMAIN events : events[k].by = b}

\* batch b inserted the row r that is in the table now: the last successful
\* INSERT of r was b's
Owns(b, r) ==
  /\ r \in Rows
  /\ \E k \in EventsOf(b) :
       /\ Row(events[k].trade) = r
       /\ \A n \in DOMAIN events : n > k => Row(events[n].trade) # r

\* ----------------------------------------------------------------- claims
\* C1 (check-then-act atomicity): two batches never both hold an INSERT for
\* the same key that each issued after observing the key absent.
C1_CheckThenActAtomic ==
  \A b \in Batches, c \in Batches :
    b # c => PendingInserts(b) \cap PendingInserts(c) = {}

\* C2 (uniqueness): the trades table never holds two rows with the same
\* (broker, accountId, orderId, creationTimestamp).
C2_Uniqueness ==
  /\ \A r \in Rows : CopiesIn(r, store) = 1
  /\ \A r \in Rows, x \in Rows : DedupKey(r) = DedupKey(x) => r = x

\* reached: an INSERT of a key that was already in the table was refused
C2_Witness ==
  \E b \in Batches : cause[b] = "constraint" /\ Rows # {}

\* C3 (dedup key): a record is skipped as a duplicate exactly when the table
\* holds a row with the same (broker, accountId, orderId, creationTimestamp).
C3_DedupKeyExact ==
  [][\A b \in Batches : \A s \in Cur(b, "SELECT") :
       (s \notin run' /\ pc'[b] = "running" /\ alive')
         => LET r == Row(TradeToInsert(trades[b][s.i]))
            IN  (skipped'[b] = skipped[b] + 1)
                  <=> (\E x \in Rows : DedupKey(x) = DedupKey(r))]_vars

\* C4 (idempotent sync): a sync that runs after the previous one has resolved,
\* on the same remote result set, ends with inserted = 0 and leaves the table
\* as it found it (no statement failed with a storage error and the table
\* was not cleared in between).
C4_IdempotentSync ==
  \A b \in Batches :
    ( /\ b > 1 /\ seq[b] /\ Ended(b)
      /\ trades[b] = trades[b - 1]
      /\ NoFault /\ ~cleared
      /\ \A c \in Batches : c > b => pc[c] = "idle" )
    => /\ pc[b] = "resolved"
       /\ inserted[b] = 0
       /\ BagCardinality(store) = startRows[b]

\* reached: the first run inserted, the second run skipped the same records
C4_Witness ==
  /\ seq[2] /\ pc[2] = "resolved" /\ trades[2] = trades[1]
  /\ NoFault /\ ~cleared
  /\ inserted[1] > 0 /\ skipped[2] > 0

\* C5 (overlap safety): two overlapping syncs never perform more inserts for
\* the records they share than there are shared records with non-null P&L
\* (both start on an empty table, neither meets a storage error, and
\* DELETE /api/trades is not requested).
Records(ts) == {ts[k] : k \in DOMAIN ts}
SharedRecords(a, b) ==
  {t \in Records(trades[a]) \cap Records(trades[b]) : Get(t, "profitAndLoss") # Null}
SharedInserts(a, b) ==
  Cardinality({k \in DOMAIN events :
                 /\ events[k].by \in {a, b}
                 /\ \E t \in SharedRecords(a, b) : TradeToInsert(t) = events[k].trade})

C5_OverlapSafety ==
  \A a \in Batches, b \in Batches :
    ( /\ a < b /\ pc[a] # "idle" /\ pc[b] # "idle" /\ ~seq[b]
      /\ startRows[a] = 0 /\ startRows[b] = 0
      /\ cause[a] # "io" /\ cause[b] # "io" /\ NoClear )
    => SharedInserts(a, b) <= Cardinality(SharedRecords(a, b))

\* reached: both overlapping syncs have ended and the shared records were
\* inserted
C5_Witness ==
  /\ Ended(1) /\ Ended(2) /\ ~seq[2]
  /\ startRows[1] = 0 /\ startRows[2] = 0
  /\ NoFault /\ NoClear
  /\ Cardinality(SharedRecords(1, 2)) > 0
  /\ SharedInserts(1, 2) = Cardinality(SharedRecords(1, 2))

\* C6 (batch atomicity): once a batch has rejected because an existence
\* check or an INSERT failed with a storage error (the loop stopped before
\* every record was counted) and its ROLLBACK has run, no row the batch
\* inserted is in the table.
C6_BatchAtomicity ==
  \A b \in Batches :
    ( /\ Ended(b) /\ cause[b] = "io"
      /\ inserted[b] + skipped[b] < NonNullCount(trades[b]) )
      => \A r \in Rows : ~Owns(b, r)

\* C7 (only committed rows are broadcast): once the emitting batch has ended,
\* every row it broadcast is in the table (as long as the table was not
\* cleared).
C7_OnlyCommittedBroadcast ==
  \A b \in Batches :
    (Ended(b) /\ ~cleared /\ alive)
      => \A k \in EventsOf(b) : Row(events[k].trade) \in Rows

\* C8 (null-P&L exclusion): a record whose profitAndLoss is null is never
\* checked, inserted or broadcast and is counted in neither counter.
C8_NullExclusion ==
  /\ \A k \in DOMAIN events : events[k].trade.profitAndLoss # Null
  /\ \A b \in Batches :
       /\ \A s \in Outstanding(b) :
            s.i > 0 => Get(trades[b][s.i], "profitAndLoss") # Null
       /\ inserted[b] + skipped[b] <= NonNullCount(trades[b])

\* reached: a batch holding a null-P&L record and another record resolved
C8_Witness ==
  \E b \in Batches :
    /\ pc[b] = "resolved"
    /\ \E k \in DOMAIN trades[b] : Get(trades[b][k], "profitAndLoss") = Null
    /\ inserted[b] > 0

\* C9 (completeness): every stored row has a non-null profitAndLoss.
C9_Completeness ==
  \A r \in Rows : r.profitAndLoss # Null

\* C10 (counter guarantee): a batch that resolves reports inserted + skipped
\* equal to the number of its records whose profitAndLoss is not null.
C10_CounterGuarantee ==
  \A b \in Batches :
    pc[b] = "resolved" => inserted[b] + skipped[b] = NonNullCount(trades[b])

\* reached: a batch that holds the same key twice and a null-P&L record
\* resolved
C10_Witness ==
  \E b \in Batches :
    /\ pc[b] = "resolved"
    /\ inserted[b] > 0 /\ skipped[b] > 0
    /\ inserted[b] + skipped[b] = Len(trades[b])

\* ------------------------------------------------------- the broadcast hub
\* io.on("connection"): a client connects and joins the sockets of io
Connect(h) ==
  /\ alive /\ listening
  /\ h \notin subs
  /\ subs' = subs \cup {h}
  /\ UNCHANGED <<alive, store, committed, txOpen, locked, dbq, run, pc,
                 trades, inserted, skipped, events, cleared, startRows,
                 cause, seq, boot, inbox, client, api>>

\* socket.on("disconnect"): the socket has left the sockets of io
Disconnect(h) ==
  /\ alive
  /\ h \in subs
  /\ subs' = subs \ {h}
  /\ UNCHANGED <<alive, store, committed, txOpen, locked, dbq, run, pc,
                 trades, inserted, skipped, events, cleared, startRows,
                 cause, seq, boot, inbox, client, api>>

\* One of the first NumSyncs syncs calls the persister when the promise of
\* every sync before it has settled (syncs awaited one after the other).  A statement the earlier
\* call issued without awaiting it, the ROLLBACK of its catch block, can
\* still be pending on the connection.
StartAlone(b) ==
  /\ b <= NumSyncs
  /\ \A c \in Batches : c < b => pc[c] \in {"resolved", "rejected", "failed"}
  /\ Start(b)

\* Syncs persist their trades one after the other on the serving process
\* while clients connect and disconnect.
HubNext ==
  \/ \E h \in Sockets : Connect(h)
  \/ \E h \in Sockets : Disconnect(h)
  \/ \E b \in Batches : StartAlone(b)
  \/ \E b \in Batches : BeginOk(b)
  \/ \E b \in Batches : SelectAbsent(b)
  \/ \E b \in Batches : SelectPresent(b)
  \/ \E b \in Batches : InsertOk(b)
  \/ \E b \in Batches : CommitOk(b)

Hub == Init /\ [][HubNext]_vars

\* Syncs run on the serving process, each of them failing before it reaches
\* the persister or persisting its trades after the earlier ones have ended.
SyncsNext ==
  \/ \E b \in Batches : StartAlone(b)
  \/ \E b \in Batches : SyncFail(b)
  \/ \E b \in Batches : BeginOk(b)
  \/ \E b \in Batches : SelectAbsent(b)
  \/ \E b \in Batches : SelectPresent(b)
  \/ \E b \in Batches : InsertOk(b)
  \/ \E b \in Batches : CommitOk(b)

Syncs == Init /\ [][SyncsNext]_vars

\* ------------------------------------------------------ the startup chain
\* clearTradesTable().then(initializeTopstepSessionAndAccount).finally(listen)

\* The modules have been evaluated: tradesDb is open on the database file,
\* which may hold the rows of an earlier run; the token refresh job was
\* scheduled by cron.schedule; .env.local may or may not provide the
\* credentials, a session token and an account id; clearTradesTable() has
\* handed its DELETE to the connection.
BootInit ==
  /\ alive = TRUE
  /\ store \in {EmptyBag, SetToBag({Row(TradeToInsert(T1))})}
  /\ committed = store
  /\ txOpen = FALSE
  /\ locked = FALSE
  /\ dbq = <<>>
  /\ run = {Stmt(0, "DELETE", 0, FALSE)}
  /\ pc = [b \in Batches |-> "idle"]
  /\ trades = [b \in Batches |-> <<>>]
  /\ inserted = [b \in Batches |-> 0]
  /\ skipped = [b \in Batches |-> 0]
  /\ events = <<>>
  /\ cleared = FALSE
  /\ startRows = [b \in Batches |-> 0]
  /\ cause = [b \in Batches |-> "none"]
  /\ seq = [b \in Batches |-> FALSE]
  /\ phase = "clear"
  /\ creds \in {"both", "username", "none"}
  /\ token \in {Unset} \cup Tokens
  /\ account \in {Unset} \cup AccountIds
  /\ initialSyncDone = FALSE
  /\ listening = FALSE
  /\ cronArmed = TRUE
  /\ calls = [login |-> 0, accounts |-> 0, backfill |-> 0]
  /\ errs = {}
  /\ subs = {}
  /\ inbox = [h \in Sockets |-> <<>>]
  /\ accountName \in Prefixes \cup {NoName}
  /\ NoRequests
  /\ NoClient

\* the .finally callback: server.listen(PORT) and io.on("connection")
Listen ==
  /\ phase' = "up"
  /\ listening' = TRUE

\* The DELETE of clearTradesTable succeeds: the promise resolves and
\* initializeTopstepSessionAndAccount runs up to its first await; without
\* credentials it returns at once and the server starts listening.
ClearOk ==
  /\ phase = "clear"
  /\ \E s \in Cur(0, "DELETE") : SetDb(Done(s, <<>>))
  /\ store' = EmptyBag
  /\ committed' = EmptyBag
  /\ cleared' = TRUE
  /\ IF Credentials
     THEN /\ phase' = "login"
          /\ calls' = [calls EXCEPT !.login = @ + 1]
          /\ UNCHANGED <<listening, errs>>
     ELSE /\ Listen
          /\ errs' = errs \cup {"config"}
          /\ UNCHANGED calls
  /\ UNCHANGED <<alive, txOpen, pc, trades, inserted, skipped, events,
                 startRows, cause, seq, creds, token, account,
                 initialSyncDone, cronArmed, subs, inbox, client, api>>

\* The DELETE fails: the promise rejects, .then is skipped, the .finally
\* callback calls server.listen and io.on("connection"), and the promise
\* .finally returns rejects with the same error.  Nothing handles that
\* rejection, and the runtime ends the process on an unhandled rejection:
\* the server was told to listen, and the process ends before it serves.
ClearError ==
  /\ phase = "clear"
  /\ \E s \in Cur(0, "DELETE") : SetDb(Done(s, <<>>))
  /\ errs' = errs \cup {"clear"}
  /\ listening' = TRUE
  /\ phase' = "exit"
  /\ alive' = FALSE
  /\ UNCHANGED <<store, committed, txOpen, pc, trades, inserted, skipped,
                 events, cleared, startRows, cause, seq, creds, token,
                 account, initialSyncDone, cronArmed, calls,
                 subs, inbox, client, api>>

\* Auth/loginKey answers: tokenRes.data.token is stored, whatever it is, and
\* Account/search is sent.
LoginOk ==
  /\ alive /\ phase = "login"
  /\ \E answer \in AuthAnswers : token' = Stored(answer)
  /\ phase' = "accounts"
  /\ calls' = [calls EXCEPT !.accounts = @ + 1]
  /\ UNCHANGED <<ingest, creds, account, initialSyncDone, listening,
                 cronArmed, errs, subs, inbox, client, api>>

\* Auth/loginKey throws: the catch block of
\* initializeTopstepSessionAndAccount logs, the function returns and the
\* server starts listening.
LoginError ==
  /\ alive /\ phase = "login"
  /\ errs' = errs \cup {"login"}
  /\ Listen
  /\ UNCHANGED <<ingest, creds, token, account, initialSyncDone,
                 cronArmed, calls, subs, inbox, client, api>>

\* performInitialTradeSync() is called and runs up to its first await:
\* without a session token or an account id (acct: the account id now) it
\* logs and returns, and the server starts listening; otherwise Trade/search
\* is sent.
Backfill(acct) ==
  /\ calls' = [calls EXCEPT !.backfill = @ + 1]
  /\ IF Truthy(token) /\ Truthy(acct)
     THEN /\ phase' = "search"
          /\ UNCHANGED <<listening, errs>>
     ELSE /\ Listen
          /\ errs' = errs \cup {"config"}

\* Account/search answers: the id of the first tradable account that matches
\* ACCOUNT_NAME is stored when the answer holds one; then the backfill is
\* invoked.
AccountsOk ==
  /\ alive /\ phase = "accounts"
  /\ \E answer \in AccountAnswers :
       /\ account' = Resolved(answer, accountName, account)
       /\ Backfill(Resolved(answer, accountName, account))
  /\ UNCHANGED <<ingest, creds, token, initialSyncDone, cronArmed, subs,
                 inbox, client, api>>

\* Account/search throws: the same catch block; the server starts listening.
AccountsError ==
  /\ alive /\ phase = "accounts"
  /\ errs' = errs \cup {"accounts"}
  /\ Listen
  /\ UNCHANGED <<ingest, creds, token, account, initialSyncDone,
                 cronArmed, calls, subs, inbox, client, api>>

\* Trade/search answers with a trades array: logTopstepTradesToDatabase is
\* called with it.
SearchOk ==
  /\ phase = "search"
  /\ Start(1)

\* Trade/search answers without a trades array: initialSyncDone = true.
SearchEmpty ==
  /\ alive /\ phase = "search" /\ pc[1] = "idle"
  /\ initialSyncDone' = TRUE
  /\ Listen
  /\ UNCHANGED <<ingest, creds, token, account, cronArmed, calls, errs,
                 subs, inbox, client, api>>

\* Trade/search throws: the catch block of performInitialTradeSync sets
\* initialSyncDone = true.
SearchError ==
  /\ alive /\ phase = "search" /\ pc[1] = "idle"
  /\ initialSyncDone' = TRUE
  /\ errs' = errs \cup {"search"}
  /\ Listen
  /\ UNCHANGED <<ingest, creds, token, account, cronArmed, calls, subs,
                 inbox, client, api>>

\* await logTopstepTradesToDatabase(...) is resumed: the batch resolved, or
\* it rejected and the catch block runs; either way initialSyncDone = true,
\* the startup function returns and the server starts listening.
BackfillDone ==
  /\ alive /\ phase = "search"
  /\ pc[1] \in {"resolved", "rejected"}
  /\ initialSyncDone' = TRUE
  /\ errs' = IF pc[1] = "rejected" THEN errs \cup {"persist"} ELSE errs
  /\ Listen
  /\ UNCHANGED <<ingest, creds, token, account, cronArmed, calls, subs,
                 inbox, client, api>>

\* The token refresh job fires and Auth/loginKey answers: the token is
\* replaced.
CronRefresh ==
  /\ alive /\ cronArmed /\ Credentials
  /\ \E answer \in AuthAnswers : token' = Stored(answer)
  /\ UNCHANGED <<ingest, phase, creds, account, initialSyncDone, listening,
                 cronArmed, calls, errs, subs, inbox, client, api>>

\* The token refresh job fires without the credentials: it logs and returns.
CronNoCredentials ==
  /\ alive /\ cronArmed /\ ~Credentials
  /\ errs' = errs \cup {"refresh"}
  /\ UNCHANGED <<ingest, phase, creds, token, account, initialSyncDone,
                 listening, cronArmed, calls, subs, inbox, client, api>>

\* The token refresh job fires and Auth/loginKey throws: the catch block logs.
CronError ==
  /\ alive /\ cronArmed /\ Credentials
  /\ errs' = errs \cup {"refresh"}
  /\ UNCHANGED <<ingest, phase, creds, token, account, initialSyncDone,
                 listening, cronArmed, calls, subs, inbox, client, api>>

BootNext ==
  \/ ClearOk
  \/ ClearError
  \/ LoginOk
  \/ LoginError
  \/ AccountsOk
  \/ AccountsError
  \/ SearchOk
  \/ SearchEmpty
  \/ SearchError
  \/ BeginOk(1)
  \/ SelectError(1)
  \/ SelectAbsent(1)
  \/ SelectPresent(1)
  \/ InsertOk(1)
  \/ InsertError(1)
  \/ CommitOk(1)
  \/ CommitError(1)
  \/ RollbackOk(1)
  \/ UnhandledError(1)
  \/ BackfillDone
  \/ CronRefresh
  \/ CronNoCredentials
  \/ CronError

Boot == BootInit /\ [][BootNext]_vars

\* Every pending callback of the event loop is run eventually: the answer
\* (or the failure) of a request or of a statement arrives.
FairBoot == Boot /\ WF_vars(BootNext)

\* C11 (failed fetch leaves no state): a sync whose trade search failed, or
\* that found no session token, performs no insert and no broadcast, issues
\* no statement, and the step in which it fails leaves the trades table and
\* the event stream as they were.
C11_FailedFetchNoState ==
  [][\A b \in Batches :
       pc'[b] = "failed"
         => /\ inserted'[b] = 0 /\ skipped'[b] = 0
            /\ \A k \in DOMAIN events' : events'[k].by # b
            /\ \A s \in run' : s.by # b
            /\ \A k \in DOMAIN dbq' : dbq'[k].by # b
            /\ pc[b] # "failed"
                 => store' = store /\ committed' = committed /\ events' = events]_vars

\* reached: a sync failed while the table held rows of an earlier sync, and
\* a later sync persisted its trades
C11_Witness ==
  \E b \in Batches :
    /\ b > 1 /\ pc[b] = "failed"
    /\ inserted[b - 1] > 0 /\ Rows # {}

\* C12 (broadcast failure isolation): after broadcastNewTrade has thrown for
\* a trade of batch b the process is running and the batch goes on: it has
\* resolved, or its next statement is on the connection.
C12_BroadcastIsolation ==
  \A b \in Batches :
    cause[b] = "broadcast"
      => alive /\ (pc[b] = "resolved" \/ Outstanding(b) # {})

\* the indices of the records of batch b that an event of b was emitted for
Published(b) == {events[k].i : k \in EventsOf(b)}

\* C13 (each newly persisted trade is published): a batch that has committed
\* emitted exactly one 'new-trade' event, carrying the mapped record, for
\* each record it inserted and none for a record it skipped: the events of
\* the batch are as many as its inserted counter says, and the records with
\* a P&L that have no event are as many as its skipped counter says.
C13_EachInsertPublished ==
  \A b \in Batches :
    pc[b] = "resolved"
      => /\ Cardinality(EventsOf(b)) = inserted[b]
         /\ Cardinality(Published(b)) = inserted[b]
         /\ \A k \in EventsOf(b) :
              /\ events[k].i \in DOMAIN trades[b]
              /\ events[k].trade = TradeToInsert(trades[b][events[k].i])
         /\ Cardinality({n \in DOMAIN trades[b] \ Published(b) :
                           Get(trades[b][n], "profitAndLoss") # Null}) = skipped[b]

\* reached: a committed batch that inserted one record and skipped another
C13_Witness ==
  \E b \in Batches :
    /\ pc[b] = "resolved"
    /\ inserted[b] = 1 /\ skipped[b] = 1
    /\ Cardinality(EventsOf(b)) = 1

\* the existence checks and INSERTs of batch b that have not completed
InFlight(b) == {s \in Outstanding(b) : s.op \in {"SELECT", "INSERT"}}

\* C15 (processing and publish order): a batch has at most one record under
\* examination; when record i is under examination every earlier record
\* with a P&L has been counted as inserted or skipped and no event of the
\* batch is for record i or a later one; and the events of the batch appear
\* in the order of their records in the input.
C15_InputOrder ==
  \A b \in Batches :
    /\ Cardinality(InFlight(b)) <= 1
    /\ \A s \in InFlight(b) :
         /\ inserted[b] + skipped[b] = NonNullCount(SubSeq(trades[b], 1, s.i - 1))
         /\ \A k \in EventsOf(b) : events[k].i < s.i
    /\ \A k \in EventsOf(b), n \in EventsOf(b) :
         k < n => events[k].i < events[n].i

\* reached: a batch published its first and its second record, in that order
C15_Witness ==
  \E b \in Batches : \E k \in EventsOf(b), n \in EventsOf(b) :
    /\ pc[b] = "resolved"
    /\ k < n /\ events[k].i = 1 /\ events[n].i = 2

\* the packets of event k sent to socket h
Packets(h, k) == {n \in DOMAIN inbox[h] : inbox[h][n].k = k}

\* C14 (broadcast fan-out): of every 'new-trade' event exactly one packet
\* was sent to each socket that was connected when the event was emitted and
\* none to any other socket; the packet carries the mapped trade whose
\* column values are the stored row.
C14_FanOut ==
  \A k \in DOMAIN events : \A h \in Sockets :
    /\ Cardinality(Packets(h, k)) = IF h \in events[k].to THEN 1 ELSE 0
    /\ \A n \in Packets(h, k) :
         /\ inbox[h][n].trade = TradeToInsert(trades[events[k].by][events[k].i])
         /\ Row(inbox[h][n].trade) \in Rows

\* reached: two trades were published; a socket that connected between the
\* two got the second only, one that disconnected between the two got the
\* first only
C14_Witness ==
  /\ Len(events) = 2
  /\ \E h \in Sockets, g \in Sockets :
       /\ h \in events[1].to /\ h \notin events[2].to
       /\ g \notin events[1].to /\ g \in events[2].to
       /\ Len(inbox[h]) = 1 /\ Len(inbox[g]) = 1

\* performInitialTradeSync has been called and has returned
BackfillAttempted == calls.backfill > 0 /\ phase = "up"

\* C16 (backfill always marked attempted): whenever performInitialTradeSync
\* has returned, initialSyncDone is true.
C16_BackfillMarked ==
  BackfillAttempted => initialSyncDone

\* C17 (the orchestrator proceeds on failure): when startup has finished and
\* the token request had failed, the account search and the backfill were
\* still invoked; when the account search had failed, the backfill was still
\* invoked.
C17_ProceedOnFailure ==
  phase = "up"
    => /\ "login" \in errs => calls.accounts > 0 /\ calls.backfill > 0
       /\ "accounts" \in errs => calls.backfill > 0

\* C18 (steady state only after the backfill): the recurring job is armed
\* and the server listens only when the backfill has been attempted.
C18_SteadyAfterBackfill ==
  (cronArmed \/ listening) => BackfillAttempted

\* C19 (no terminal error state): whatever startup steps fail, the process
\* eventually is running with the HTTP server listening.
C19_EventuallyListening ==
  <>(alive /\ listening)

\* C20 (backfill exactly once, after the token): when startup has finished
\* performInitialTradeSync has been called exactly once, and it is never
\* called while no session token is set.
C20_BackfillOnce ==
  /\ phase = "up" => calls.backfill = 1
  /\ calls.backfill > 0 => Truthy(token)


\* ------------------------------------------------------------ HTTP endpoints
\* The server answers requests once it listens.  Each handler runs up to its
\* next await in one step; the broker's answer resumes it.  Request slots are
\* taken in order.

\* steady states the startup chain ends in, the table cleared and no trade
\* found by the backfill: fully configured (Serving), or nothing configured
Unconfigured ==
  /\ phase = "up"
  /\ creds \in {"username", "none"}
  /\ token = Unset
  /\ account = Unset
  /\ initialSyncDone = FALSE
  /\ listening = TRUE
  /\ cronArmed = TRUE
  /\ calls = [login |-> 0, accounts |-> 0, backfill |-> 0]
  /\ errs = {"config"}
  /\ subs = {}
  /\ inbox = [h \in Sockets |-> <<>>]
  /\ accountName = NoName
  /\ NoRequests
  /\ NoClient

\* logged in, but no tradable account matched ACCOUNT_NAME
NoAccount ==
  /\ phase = "up"
  /\ creds = "both"
  /\ token = 1
  /\ account = Unset
  /\ initialSyncDone = FALSE
  /\ listening = TRUE
  /\ cronArmed = TRUE
  /\ calls = [login |-> 1, accounts |-> 1, backfill |-> 1]
  /\ errs = {"config"}
  /\ subs = {}
  /\ inbox = [h \in Sockets |-> <<>>]
  /\ accountName = <<2>>
  /\ NoRequests
  /\ NoClient

ApiInit == Idle /\ (Serving \/ Unconfigured \/ NoAccount)

\* POST /api/trade/topstep/order up to its first await: without a session
\* token or a username it answers 400; otherwise Order/place is sent with
\* accountId: process.env.TOPSTEP_ACCOUNT_ID, whatever that is.  The answer
\* goes to the client, or, when the request is the one the TradingView
\* handler posted (ep = "alert"), to that handler, which awaits it: fwd is
\* the status the order endpoint answered the forwarded request with.
OrderEntry(r, ep) ==
  IF ~Truthy(token) \/ ~Username
  THEN IF ep = "alert"
       THEN /\ req' = [req EXCEPT ![r].at = "done", ![r].fwd = 400]
            /\ UNCHANGED res
       ELSE /\ req' = [req EXCEPT ![r].ep = ep, ![r].at = "done"]
            /\ Reply(r, 400, "config")
  ELSE /\ req' = [req EXCEPT ![r].ep = ep, ![r].at = "place",
                             ![r].sent = account]
       /\ UNCHANGED res

OrderRequest(r) ==
  /\ Arrives(r)
  /\ OrderEntry(r, "order")
  /\ UNCHANGED <<ingest, boot, subs, inbox, client, accountName>>

\* the request the TradingView handler posted reaches the order endpoint
OrderForwarded(r) ==
  /\ alive
  /\ req[r].at = "forward"
  /\ OrderEntry(r, "alert")
  /\ UNCHANGED <<ingest, boot, subs, inbox, client, accountName>>

\* an order handler that answers and returns
OrderPlacedNoSync(r) ==
  /\ alive
  /\ req[r].at = "place"
  /\ IF req[r].ep = "alert"
     THEN /\ req' = [req EXCEPT ![r].at = "done", ![r].fwd = 200]
          /\ UNCHANGED res
     ELSE /\ req' = [req EXCEPT ![r].at = "done"]
          /\ \E body \in {"placed", "refused"} : Reply(r, 200, body)
  /\ UNCHANGED <<ingest, boot, subs, inbox, client, accountName>>

\* Order/place answers: res.json(response.data), then the immediate sync
\* starts: without an account id it logs and returns, otherwise Trade/search
\* is sent for the last minute.
OrderPlaced(r) ==
  /\ alive
  /\ req[r].at = "place"
  /\ LET next == IF Truthy(account)
                 THEN [req[r] EXCEPT !.at = "search", !.sync = "running"]
                 ELSE [req[r] EXCEPT !.at = "done", !.sync = "config"]
     IN IF req[r].ep = "alert"
        THEN /\ req' = [req EXCEPT ![r] = [next EXCEPT !.fwd = 200]]
             /\ UNCHANGED res
        ELSE /\ req' = [req EXCEPT ![r] = next]
             /\ \E body \in {"placed", "refused"} : Reply(r, 200, body)
  /\ UNCHANGED <<ingest, boot, subs, inbox, client, accountName>>

\* Order/place throws: the outer catch block answers 500.
OrderError(r) ==
  /\ alive
  /\ req[r].at = "place"
  /\ IF req[r].ep = "alert"
     THEN /\ req' = [req EXCEPT ![r].at = "done", ![r].fwd = 500]
          /\ UNCHANGED res
     ELSE /\ req' = [req EXCEPT ![r].at = "done"]
          /\ Reply(r, 500, "error")
  /\ UNCHANGED <<ingest, boot, subs, inbox, client, accountName>>

\* POST /api/trade/topstep/data up to its first await: without a session
\* token it answers 400; otherwise Trade/search is sent for the month with
\* the account id of the request body.
DataRequest(r) ==
  /\ Arrives(r)
  /\ \E id \in {Account1.id, Unset} :
       IF ~Truthy(token)
       THEN /\ req' = [req EXCEPT ![r].ep = "data", ![r].arg = id,
                                  ![r].at = "done"]
            /\ Reply(r, 400, "token")
       ELSE /\ req' = [req EXCEPT ![r].ep = "data", ![r].arg = id,
                                  ![r].at = "search", ![r].sent = id]
            /\ UNCHANGED res
  /\ UNCHANGED <<ingest, boot, subs, inbox, client, accountName>>

\* Trade/search answers with a trades array: logTopstepTradesToDatabase is
\* called with it.
TradesFound(r) ==
  /\ req[r].at = "search"
  /\ \E b \in Batches :
       /\ StartBatch(b)
       /\ req' = [req EXCEPT ![r].at = "persist", ![r].batch = b]
  /\ UNCHANGED <<boot, subs, inbox, client, accountName, res>>

\* Trade/search answers without a trades array: the immediate sync ends; the
\* data endpoint passes the answer on.
TradesMissing(r) ==
  /\ alive
  /\ req[r].at = "search"
  /\ IF req[r].ep = "data"
     THEN /\ Reply(r, 200, "answer")
          /\ req' = [req EXCEPT ![r].at = "done"]
     ELSE /\ req' = [req EXCEPT ![r].at = "done", ![r].sync = "done"]
          /\ UNCHANGED res
  /\ UNCHANGED <<ingest, boot, subs, inbox, client, accountName>>

\* Trade/search throws: the catch block of the immediate sync logs; that of
\* the data endpoint answers 500.
TradesError(r) ==
  /\ alive
  /\ req[r].at = "search"
  /\ IF req[r].ep = "data"
     THEN /\ Reply(r, 500, "error")
          /\ req' = [req EXCEPT ![r].at = "done"]
     ELSE /\ req' = [req EXCEPT ![r].at = "done", ![r].sync = "failed"]
          /\ UNCHANGED res
  /\ UNCHANGED <<ingest, boot, subs, inbox, client, accountName>>

\* await logTopstepTradesToDatabase(...) is resumed, the batch resolved or
\* rejected.
Persisted(r) ==
  /\ alive
  /\ req[r].at = "persist"
  /\ pc[req[r].batch] \in {"resolved", "rejected"}
  /\ LET ok == pc[req[r].batch] = "resolved"
     IN IF req[r].ep = "data"
        THEN /\ IF ok THEN Reply(r, 200, "answer") ELSE Reply(r, 500, "error")
             /\ req' = [req EXCEPT ![r].at = "done"]
        ELSE /\ req' = [req EXCEPT ![r].at = "done",
                                   ![r].sync = IF ok THEN "done" ELSE "failed"]
             /\ UNCHANGED res
  /\ UNCHANGED <<ingest, boot, subs, inbox, client, accountName>>

\* a session token handler that does not look at the credentials
TokenRequestUnchecked(r) ==
  /\ Arrives(r)
  /\ req' = [req EXCEPT ![r].ep = "token", ![r].at = "login"]
  /\ UNCHANGED res
  /\ UNCHANGED <<ingest, boot, subs, inbox, client, accountName>>

\* POST /api/trade/topstep/sessionToken up to its first await: without the
\* credentials it answers 400; otherwise Auth/loginKey is sent.
TokenRequest(r) ==
  /\ Arrives(r)
  /\ IF ~Credentials
     THEN /\ req' = [req EXCEPT ![r].ep = "token", ![r].at = "done"]
          /\ Reply(r, 400, "config")
     ELSE /\ req' = [req EXCEPT ![r].ep = "token", ![r].at = "login"]
          /\ UNCHANGED res
  /\ UNCHANGED <<ingest, boot, subs, inbox, client, accountName>>

\* Auth/loginKey answers: res.json(response.data), and response.data.token
\* is stored, whatever it is.
TokenAnswer(r) ==
  /\ alive
  /\ req[r].at = "login"
  /\ \E answer \in AuthAnswers :
       /\ token' = Stored(answer)
       /\ req' = [req EXCEPT ![r].at = "done", ![r].got = answer]
  /\ Reply(r, 200, "answer")
  /\ UNCHANGED <<ingest, phase, creds, account, initialSyncDone, listening,
                 cronArmed, calls, errs, subs, inbox, client, accountName>>

\* Auth/loginKey throws: the catch block answers 500.
TokenError(r) ==
  /\ alive
  /\ req[r].at = "login"
  /\ Reply(r, 500, "error")
  /\ req' = [req EXCEPT ![r].at = "done"]
  /\ UNCHANGED <<ingest, boot, subs, inbox, client, accountName>>

\* POST /api/trade/topstep/account up to its first await: ACCOUNT_NAME is
\* assigned from the body (a body without accountName stores the text
\* "undefined"); without a session token it answers 400, otherwise
\* Account/search is sent.
AccountRequest(r) ==
  /\ Arrives(r)
  /\ \E name \in Prefixes \cup {NoName} :
       /\ accountName' = name
       /\ IF ~Truthy(token)
          THEN /\ req' = [req EXCEPT ![r].ep = "account", ![r].arg = name,
                                     ![r].at = "done"]
               /\ Reply(r, 400, "token")
          ELSE /\ req' = [req EXCEPT ![r].ep = "account", ![r].arg = name,
                                     ![r].at = "accounts"]
               /\ UNCHANGED res
  /\ UNCHANGED <<ingest, boot, subs, inbox, client>>

\* accountName.toUpperCase() throws in the find callback when the body held
\* no accountName and the list has an entry to examine
FindThrows(answer, name) ==
  HasAccounts(answer) /\ name = NoName /\ Len(answer.accounts) > 0

\* the status the account endpoint answers with
AccountStatus(answer, name) ==
  IF ~HasAccounts(answer) \/ FindThrows(answer, name) THEN 500
  ELSE IF Find(answer.accounts, name) = 0 THEN 404 ELSE 200

\* Account/search answers: the id of the first matching tradable account is
\* stored and returned; without a match the endpoint answers 404 and assigns
\* nothing.
AccountAnswer(r) ==
  /\ alive
  /\ req[r].at = "accounts"
  /\ \E answer \in AccountAnswers :
       /\ account' = Resolved(answer, req[r].arg, account)
       /\ Reply(r, AccountStatus(answer, req[r].arg), "answer")
       /\ req' = [req EXCEPT ![r].at = "done", ![r].got = answer]
  /\ UNCHANGED <<ingest, phase, creds, token, initialSyncDone, listening,
                 cronArmed, calls, errs, subs, inbox, client, accountName>>

\* Account/search throws: the catch block answers 500.
AccountError(r) ==
  /\ alive
  /\ req[r].at = "accounts"
  /\ Reply(r, 500, "error")
  /\ req' = [req EXCEPT ![r].at = "done"]
  /\ UNCHANGED <<ingest, boot, subs, inbox, client, accountName>>

\* the key the TradingView handler compares alert.key with
Key == "XCtCCAEw2G8Dg9"

\* a key that is not the string: the array ["XCtCCAEw2G8Dg9"]
KeyInArray == "[XCtCCAEw2G8Dg9]"

\* v == k of the language: a missing key (undefined) is equal to no string,
\* an array is compared by its text, which for a one-element array is the
\* text of the element
LooseEquals(alert, f, k) ==
  /\ f \in DOMAIN alert
  /\ alert[f] = k \/ (k = Key /\ alert[f] = KeyInArray)

\* the alert of the README's "TradingView Alert Format"
Documented ==
  [contractId |-> "CON.F.US.ENQ.U25", broker |-> "topstep", quantity |-> "1",
   side |-> "buy", key |-> Key]

\* alert with field f set to v
With(alert, f, v) ==
  [g \in DOMAIN alert \cup {f} |-> IF g = f THEN v ELSE alert[g]]

\* alert without field f
Without(alert, f) == [g \in DOMAIN alert \ {f} |-> alert[g]]

\* request bodies the TradingView endpoint may receive
Alerts ==
  {Documented,
   With(Documented, "price", "100"),
   With(With(Documented, "price", "100"), "broker", "TopStep"),
   With(With(Documented, "price", "100"), "key", "guess"),
   With(With(Documented, "price", "100"), "key", KeyInArray),
   Without(With(Documented, "price", "100"), "key"),
   Without(With(Documented, "price", "100"), "side"),
   Without(Documented, "broker"),
   With(Documented, "broker", "kraken"),
   With(Documented, "broker", "ibkr"),
   With(Documented, "broker", "binance")}

\* !alert.f
Missing(alert, f) == f \notin DOMAIN alert

\* broker.toLowerCase()
ToLowerCase(str) == IF str = "TopStep" THEN "topstep" ELSE str

\* what the TradingView handler does with an alert before any await: the
\* status it answers with, or 0 when it posts the order to the order endpoint
AlertReply(alert) ==
  IF ~LooseEquals(alert, "key", Key) THEN [status |-> 400, body |-> "key"]
  ELSE IF Missing(alert, "broker") THEN [status |-> 400, body |-> "broker"]
  ELSE IF ToLowerCase(alert.broker) = "topstep"
       THEN IF \/ Missing(alert, "contractId") \/ Missing(alert, "side")
               \/ Missing(alert, "quantity") \/ Missing(alert, "price")
            THEN [status |-> 400, body |-> "fields"]
            ELSE [status |-> 0, body |-> "order"]
  ELSE IF ToLowerCase(alert.broker) \in {"kraken", "ibkr"}
       THEN [status |-> 501, body |-> "unsupported"]
  ELSE [status |-> 400, body |-> "unknown"]

\* POST /api/trade/tradingview up to its first await: the alert is refused,
\* or the order is posted to the order endpoint of this server
\* (axios.post to localhost) and the handler awaits the answer.
AlertRequest(r) ==
  /\ Arrives(r)
  /\ \E alert \in Alerts :
       IF AlertReply(alert).status = 0
       THEN /\ req' = [req EXCEPT ![r].ep = "alert", ![r].arg = alert,
                                  ![r].at = "forward"]
            /\ UNCHANGED res
       ELSE /\ req' = [req EXCEPT ![r].ep = "alert", ![r].arg = alert,
                                  ![r].at = "done"]
            /\ Reply(r, AlertReply(alert).status, AlertReply(alert).body)
  /\ UNCHANGED <<ingest, boot, subs, inbox, client, accountName>>

\* await axios.post(...) of the TradingView handler is resumed with the
\* answer of the order endpoint: res.json({ success: true, ... }), or, the
\* answer being a 4xx or 5xx, axios throws and the catch block answers 400.
AlertAnswered(r) ==
  /\ alive
  /\ req[r].ep = "alert" /\ req[r].fwd # 0 /\ res[r].status = 0
  /\ IF req[r].fwd = 200 THEN Reply(r, 200, "order")
     ELSE Reply(r, 400, "failed")
  /\ UNCHANGED <<ingest, boot, subs, inbox, client, accountName, req>>

\* the order, alert and data endpoints with the syncs they start
OrdersNext ==
  \/ \E r \in Callers : OrderRequest(r)
  \/ \E r \in Callers : AlertRequest(r)
  \/ \E r \in Callers : OrderForwarded(r)
  \/ \E r \in Callers : AlertAnswered(r)
  \/ \E r \in Callers : OrderPlaced(r)
  \/ \E r \in Callers : OrderError(r)
  \/ \E r \in Callers : DataRequest(r)
  \/ \E r \in Callers : TradesFound(r)
  \/ \E r \in Callers : TradesMissing(r)
  \/ \E r \in Callers : TradesError(r)
  \/ \E r \in Callers : Persisted(r)
  \/ \E b \in Batches : BeginOk(b)
  \/ \E b \in Batches : SelectError(b)
  \/ \E b \in Batches : SelectAbsent(b)
  \/ \E b \in Batches : SelectPresent(b)
  \/ \E b \in Batches : InsertOk(b)
  \/ \E b \in Batches : InsertError(b)
  \/ \E b \in Batches : BroadcastError(b)
  \/ \E b \in Batches : CommitOk(b)
  \/ \E b \in Batches : CommitError(b)
  \/ \E b \in Batches : RollbackOk(b)
  \/ \E b \in Batches : UnhandledError(b)

Orders == ApiInit /\ [][OrdersNext]_vars

\* the session token endpoint and the token refresh job
AuthNext ==
  \/ \E r \in Reqs : TokenRequest(r)
  \/ \E r \in Reqs : TokenAnswer(r)
  \/ \E r \in Reqs : TokenError(r)
  \/ CronRefresh
  \/ CronNoCredentials
  \/ CronError

Auth == ApiInit /\ [][AuthNext]_vars

\* the account endpoint
AccountsNext ==
  \/ \E r \in Reqs : AccountRequest(r)
  \/ \E r \in Reqs : AccountAnswer(r)
  \/ \E r \in Reqs : AccountError(r)

Accounts == ApiInit /\ [][AccountsNext]_vars

\* The process started without the API key, without a token and an account
\* id, on an empty table: the startup chain (clearTradesTable, then
\* initializeTopstepSessionAndAccount, which returns before it logs in or
\* calls performInitialTradeSync), every request that authenticates or
\* syncs, and the token refresh job.
BareNext ==
  \/ ClearOk
  \/ ClearError
  \/ \E r \in Reqs : OrderRequest(r)
  \/ \E r \in Reqs : AlertRequest(r)
  \/ \E r \in Reqs : OrderForwarded(r)
  \/ \E r \in Reqs : AlertAnswered(r)
  \/ \E r \in Reqs : DataRequest(r)
  \/ \E r \in Reqs : TokenRequest(r)
  \/ \E r \in Reqs : AccountRequest(r)
  \/ CronNoCredentials

BareInit ==
  /\ BootInit
  /\ creds # "both"
  /\ token = Unset
  /\ account = Unset
  /\ accountName = NoName
  /\ store = EmptyBag

Bare == BareInit /\ [][BareNext]_vars


\* the configured server in steady state with everything it schedules by
\* itself (the token refresh job is the only cron.schedule call) and one
\* client that may place orders
TimersNext ==
  \/ CronRefresh
  \/ CronError
  \/ \E r \in Callers : OrderRequest(r)
  \/ \E r \in Callers : OrderPlaced(r)
  \/ \E r \in Callers : OrderError(r)
  \/ \E r \in Callers : TradesFound(r)
  \/ \E r \in Callers : TradesMissing(r)
  \/ \E r \in Callers : TradesError(r)
  \/ \E r \in Callers : Persisted(r)
  \/ \E b \in Batches : BeginOk(b)
  \/ \E b \in Batches : SelectAbsent(b)
  \/ \E b \in Batches : SelectPresent(b)
  \/ \E b \in Batches : InsertOk(b)
  \/ \E b \in Batches : CommitOk(b)

Timers == Init /\ [][TimersNext]_vars

\* the cron job fires again and again
Scheduled == CronRefresh \/ CronError

\* a remote call is answered, a statement completes
Resumed ==
  \/ \E r \in Callers : OrderPlaced(r) \/ OrderError(r)
  \/ \E r \in Callers : TradesFound(r) \/ TradesMissing(r) \/ TradesError(r)
  \/ \E r \in Callers : Persisted(r)
  \/ \E b \in Batches : BeginOk(b) \/ SelectAbsent(b) \/ SelectPresent(b)
  \/ \E b \in Batches : InsertOk(b) \/ CommitOk(b)

\* clients are free never to place an order
FairTimers == Timers /\ WF_vars(Scheduled) /\ WF_vars(Resumed)

\* ------------------------------------------------------------------ C21
\* C21: in steady state an incremental sync runs on a recurring interval
\* whether or not an order is placed, so trades the broker holds (Remote has
\* trades with a P&L) are eventually ingested: unless a client places an
\* order, the table does not stay empty.
C21_RecurringSync ==
  <>(store # EmptyBag \/ \E r \in Reqs : req[r].at # "new")

\* ------------------------------------------------------------------ C22
\* the order handler of slot r has received the answer of Order/place
Placed(r) ==
  \/ req[r].ep = "order" /\ res[r].status = 200
  \/ req[r].ep = "alert" /\ req[r].fwd = 200

\* C22: every order placement is followed by an invocation of the immediate
\* sync, started only after Order/place has answered (none is under way while
\* the handler awaits the answer), and whatever the sync does afterwards
\* (its search or one of its statements failing included), the response
\* sent for the order, to the client or to the TradingView handler that
\* forwarded it, stays as it was sent.
C22_OrderTriggeredSync ==
  [][\A r \in Reqs :
       /\ req[r].at \in {"forward", "place"} => req[r].sync = "none"
       /\ Placed(r)' => req'[r].sync # "none"
       /\ res[r].status # 0 => res'[r] = res[r]
       /\ req[r].fwd # 0 => req'[r].fwd = req[r].fwd]_vars

\* an order was answered and a statement of its immediate sync failed
\* afterwards: the sync is marked failed, the response is the one sent
C22_Witness ==
  \E r \in Reqs :
    /\ Placed(r)
    /\ req[r].sync = "failed"
    /\ req[r].batch # 0 /\ pc[req[r].batch] = "rejected"

\* ------------------------------------------------------------------ C23
\* C23: a failed authentication attempt (scheduled refresh or session token
\* endpoint; credentials missing, remote call failing or login refused)
\* leaves the session token as it was and the process running: the token only
\* ever changes to a token the broker issued.
C23_FailedRefreshKeepsToken ==
  [][/\ token' # token => token' \in Tokens
     /\ alive => alive']_vars

\* ------------------------------------------------------------------ C24
\* C24: without the API key and starting without a token, authentication
\* fails without a remote call (no Auth/loginKey at startup, no handler
\* awaits it) and sets no token; the backfill is not invoked; every request
\* that would sync (order, alert forwarded to the order endpoint,
\* administrative data sync) is answered with the configuration error and
\* starts no sync and no batch; no row is inserted and the table stays
\* empty.
C24_MissingCredentials ==
  /\ token = Unset
  /\ store = EmptyBag
  /\ events = <<>>
  /\ calls = [login |-> 0, accounts |-> 0, backfill |-> 0]
  /\ (phase = "up" => "config" \in errs)
  /\ \A b \in Batches : pc[b] = "idle" /\ inserted[b] = 0
  /\ \A r \in Reqs :
       /\ req[r].at \in {"new", "forward", "done"}
       /\ req[r].sync = "none"
       /\ req[r].batch = 0
       /\ req[r].ep \in {"token", "order", "data"} =>
            res[r].status = 400 /\ res[r].body \in {"config", "token"}
       /\ req[r].ep = "alert" =>
            /\ req[r].fwd \in {0, 400}
            /\ res[r].status \in {0, 400, 501}
            /\ res[r].status = 0 => (req[r].at = "forward" \/ req[r].fwd = 400)

\* the startup chain has ended, and the session token endpoint, a sync
\* endpoint and an alert that was forwarded to the order endpoint were all
\* answered
C24_Witness ==
  \E r, q, a \in Reqs :
    /\ req[r].ep = "token" /\ res[r].status = 400
    /\ req[q].ep \in {"order", "data"} /\ res[q].status = 400
    /\ req[a].ep = "alert" /\ req[a].fwd = 400 /\ res[a].status = 400
    /\ phase = "up" /\ cleared
    /\ errs = {"config", "refresh"}

\* ------------------------------------------------------------------ C25
\* the account id the resolver is to end with for a list and a prefix: that
\* of the first entry, in list order, that can trade and whose name starts
\* with the prefix when both are compared in upper case; unset without one
Selected(accounts, prefix) ==
  LET fits(i) == /\ accounts[i].canTrade
                 /\ Len(prefix) <= Len(accounts[i].name)
                 /\ \A k \in 1..Len(prefix) :
                      Upper(accounts[i].name[k]) = Upper(prefix[k])
  IN IF \A i \in 1..Len(accounts) : ~fits(i) THEN Unset
     ELSE accounts[CHOOSE i \in 1..Len(accounts) :
                     fits(i) /\ \A j \in 1..(i - 1) : ~fits(j)].id

\* C25: when the account endpoint has examined the broker's account list
\* (it answers 200 or 404), the account id is that of the first tradable entry
\* whose name starts with the requested prefix, case-insensitively, and it is
\* unset when no entry matches, also when an id had been resolved before.
C25_AccountResolution ==
  [][\A r \in Reqs :
       (req[r].at = "accounts" /\ res'[r].status \in {200, 404})
         => account' = Selected(req'[r].got.accounts, req[r].arg)]_vars

\* ------------------------------------------------------------------ C26
\* C26: while the account id is unset, order placement fails with a
\* configuration error before anything is sent: no Order/place request is
\* awaited or answered that carried an unset account id, and no immediate
\* sync searches trades without one.
C26_UnsetAccountFailsFast ==
  \A r \in Reqs :
    /\ (req[r].at = "place" \/ Placed(r)) => Truthy(req[r].sent)
    /\ (req[r].ep \in {"order", "alert"} /\ req[r].at = "search")
         => Truthy(account)

\* ------------------------------------------------------------------ C27
\* raw records of every kind of side (buy, sell, another number, no side at
\* all) and with different fees
RawTrades ==
  {[T1 EXCEPT !.side = sd, !.fees = f, !.orderId = o] :
     sd \in {0, 1, 2}, f \in {1, 3}, o \in {1, 2}}
    \cup {Without(T1, "side")}

\* syncs of one raw record each, one after another
ShapeStart(b) ==
  /\ \A c \in Batches : c < b => pc[c] \in {"resolved", "rejected"}
  /\ \E t \in RawTrades : StartWith(b, <<t>>)
  /\ UNCHANGED proc

ShapesNext ==
  \/ \E b \in Batches : ShapeStart(b)
  \/ \E b \in Batches : BeginOk(b)
  \/ \E b \in Batches : SelectAbsent(b)
  \/ \E b \in Batches : SelectPresent(b)
  \/ \E b \in Batches : InsertOk(b)
  \/ \E b \in Batches : CommitOk(b)

Shapes == Init /\ [][ShapesNext]_vars

\* the stored shape of raw record t
Shape(t) ==
  [broker |-> "topstep",
   side |-> IF "side" \in DOMAIN t /\ t.side = 1 THEN "buy" ELSE "sell",
   fees |-> t.fees + t.fees,
   accountId |-> t.accountId,
   contractId |-> t.contractId,
   creationTimestamp |-> t.creationTimestamp,
   price |-> t.price,
   profitAndLoss |-> t.profitAndLoss,
   size |-> t.size,
   orderId |-> t.orderId]

\* C27: the payload of every broadcast and every row of the table is the raw
\* record it was made from with broker "topstep", side "buy" for raw side 1
\* and "sell" for anything else, the fees doubled and the other seven fields
\* copied.
C27_StoredShape ==
  /\ \A k \in DOMAIN events :
       /\ events[k].trade = Shape(trades[events[k].by][events[k].i])
       /\ events[k].trade \in BagToSet(store)
  /\ \A x \in BagToSet(store) :
       \E k \in DOMAIN events :
         x = Shape(trades[events[k].by][events[k].i])

\* rows were made from a record whose side is neither 0 nor 1, and from one
\* with other fees
C27_Witness ==
  \E x, y \in BagToSet(store) :
    /\ x.side = "sell" /\ x.fees = 6
    /\ \E b \in Batches : trades[b] # <<>> /\ Get(trades[b][1], "side") = 2
                          /\ PrimaryKey(x) = PrimaryKey(Row(TradeToInsert(trades[b][1])))
    /\ y.side = "buy" /\ y.fees = 2

\* ------------------------------------------------------------------ C28
\* the keys of the rows that batches before b inserted (syncs run one after
\* another and nothing is deleted: the keys in the table when b started)
KeysBefore(b) ==
  {DedupKey(Row(events[k].trade)) : k \in {n \in DOMAIN events : events[n].by < b}}

\* the keys of the records of batch b whose profitAndLoss is not null
KeysOf(b) ==
  {DedupKey(Row(TradeToInsert(trades[b][i]))) :
     i \in {n \in DOMAIN trades[b] : Get(trades[b][n], "profitAndLoss") # Null}}

\* C28: for syncs run one after another, a sync that has resolved returns
\* inserted = the number of distinct keys among its non-null-P&L records that
\* were not in the table when it started and skipped = the rest of its
\* non-null-P&L records, and until the next sync starts the table holds
\* exactly inserted rows more than when it started.
C28_SequentialCounts ==
  \A b \in Batches :
    (pc[b] = "resolved" /\ Outstanding(b) = {})
      => /\ inserted[b] = Cardinality(KeysOf(b) \ KeysBefore(b))
         /\ skipped[b] = NonNullCount(trades[b]) - inserted[b]
         /\ (\A c \in Batches : c > b => pc[c] = "idle")
              => BagCardinality(store) = startRows[b] + inserted[b]

\* ------------------------------------------------------- GET /api/trades
\* the results SELECT * FROM trades WHERE profitAndLoss IS NOT NULL ORDER BY
\* creationTimestamp DESC may return on rows: every such row once, later
\* timestamps first, rows of equal timestamp in any order
Listings(rows) ==
  LET keep == {x \in BagToSet(rows) : x.profitAndLoss # Null}
      n == Cardinality(keep)
  IN {q \in [1..n -> keep] :
        /\ \A i, j \in 1..n : i # j => q[i] # q[j]
        /\ \A i, j \in 1..n :
             i < j => q[i].creationTimestamp >= q[j].creationTimestamp}

\* GET /api/trades: the handler hands tradesDb.all(...) to the connection
\* and returns to the event loop; the statement is pending from then on.
ListTrades(r) ==
  /\ Arrives(r)
  /\ SetDb(Schedule(Db, Stmt(0, "ALL", r, FALSE)))
  /\ req' = [req EXCEPT ![r].ep = "trades", ![r].at = "all"]
  /\ UNCHANGED <<alive, store, committed, txOpen, pc, trades, inserted,
                 skipped, events, cleared, startRows, cause, seq, boot,
                 subs, inbox, client, res, accountName>>

\* the statement executes and its callback answers with the rows
ListOk(r) ==
  /\ req[r].at = "all"
  /\ \E s \in Cur(0, "ALL") : s.i = r /\ SetDb(Done(s, <<>>))
  /\ \E rows \in Listings(store) : Reply(r, 200, rows)
  /\ req' = [req EXCEPT ![r].at = "done"]
  /\ UNCHANGED <<alive, store, committed, txOpen, pc, trades, inserted,
                 skipped, events, cleared, startRows, cause, seq, boot,
                 subs, inbox, client, accountName>>

\* the statement fails: the callback answers 500
ListError(r) ==
  /\ req[r].at = "all"
  /\ \E s \in Cur(0, "ALL") : s.i = r /\ SetDb(Done(s, <<>>))
  /\ Fault
  /\ Reply(r, 500, "error")
  /\ req' = [req EXCEPT ![r].at = "done"]
  /\ UNCHANGED <<alive, committed, pc, trades, inserted, skipped, events,
                 cleared, startRows, cause, seq, boot, subs, inbox, client,
                 accountName>>

\* the clients of GET and DELETE /api/trades
Clients == 1..NumClients

\* syncs run one after another, a statement of a sync may fail, and clients
\* list and clear the table at any time
ListingNext ==
  \/ \E b \in Batches : StartAlone(b)
  \/ \E b \in Batches : BeginOk(b)
  \/ \E b \in Batches : SelectError(b)
  \/ \E b \in Batches : SelectAbsent(b)
  \/ \E b \in Batches : SelectPresent(b)
  \/ \E b \in Batches : InsertOk(b)
  \/ \E b \in Batches : InsertError(b)
  \/ \E b \in Batches : CommitOk(b)
  \/ \E b \in Batches : CommitError(b)
  \/ \E b \in Batches : RollbackOk(b)
  \/ \E b \in Batches : UnhandledError(b)
  \/ \E r \in Clients : ClearTrades(r)
  \/ \E r \in Clients : DeleteOk(r)
  \/ \E r \in Clients : DeleteError(r)
  \/ \E r \in Clients : ListTrades(r)
  \/ \E r \in Clients : ListOk(r)
  \/ \E r \in Clients : ListError(r)

Listing == Init /\ [][ListingNext]_vars

\* ------------------------------------------------------------------ C29
\* the rows a listing of the table returns
Listed(rows) == {x \in BagToSet(rows) : x.profitAndLoss # Null}

\* C29: GET /api/trades answers with exactly the rows whose profitAndLoss is
\* not null, later creationTimestamp first, and leaves the table as it is;
\* and once the table has been cleared, a listing that is empty stays empty
\* until a row is inserted.
C29_ListAndClear ==
  [][/\ \A r \in Reqs :
          (req[r].at = "all" /\ req'[r].at = "done" /\ res'[r].status = 200)
            => /\ {res'[r].body[i] : i \in DOMAIN res'[r].body} = Listed(store)
               /\ Len(res'[r].body) = Cardinality(Listed(store))
               /\ \A i, j \in DOMAIN res'[r].body :
                    i < j => res'[r].body[i].creationTimestamp
                               >= res'[r].body[j].creationTimestamp
               /\ store' = store
     /\ (cleared /\ Listed(store) = {} /\ Listed(store') # {})
          => \E b \in Batches : inserted'[b] = inserted[b] + 1]_vars

\* ------------------------------------------------------------------ C30
\* C30: an alert in the README's documented format (the key, broker
\* "topstep", contractId, quantity and side, no price) is handed to the order
\* endpoint: it is not refused for missing fields.
C30_DocumentedAlertAccepted ==
  \A r \in Reqs :
    (req[r].ep = "alert" /\ req[r].arg = Documented)
      => ~(res[r].status = 400 /\ res[r].body = "fields")

\* ------------------------------------------------------------------ C32
\* C32 (durability of a reported success): as long as DELETE /api/trades
\* has not been requested, every row a resolved batch inserted is in the
\* table.
C32_DurableSuccess ==
  \A b \in Batches :
    (pc[b] = "resolved" /\ NoClear)
      => \A k \in EventsOf(b) : Row(events[k].trade) \in Rows

\* C33 (transaction bracketing): in a run without a storage error, no
\* BEGIN TRANSACTION executes while a transaction is open on the connection,
\* and no COMMIT or ROLLBACK executes while none is open.
C33_Bracketing ==
  \A b \in Batches :
    /\ (Cur(b, "BEGIN") # {} /\ NoFault) => ~txOpen
    /\ (Cur(b, "COMMIT") # {} /\ NoFault) => txOpen
    /\ (Cur(b, "ROLLBACK") # {} /\ NoFault) => txOpen

\* the key the dashboard compares events by
ClientKey(t) ==
  <<Get(t, "broker"), Get(t, "orderId"), Get(t, "creationTimestamp")>>

\* C34 (at most one broadcast per key between clears): as long as
\* DELETE /api/trades has not been requested, no two 'new-trade' events carry
\* the same trade, hence none the same (broker, orderId, creationTimestamp).
C34_OneBroadcastPerKey ==
  NoClear =>
    \A j \in DOMAIN events, k \in DOMAIN events :
      (j # k /\ DedupKey(Row(events[j].trade)) = DedupKey(Row(events[k].trade)))
        => ClientKey(events[j].trade) # ClientKey(events[k].trade)

\* ------------------------------------------------------------------ C35
\* the connection completes a statement and calls its callback
Completes ==
  \/ \E b \in Batches : BeginOk(b) \/ UnhandledError(b)
  \/ \E b \in Batches : SelectError(b) \/ SelectAbsent(b) \/ SelectPresent(b)
  \/ \E b \in Batches : InsertOk(b) \/ InsertError(b) \/ BroadcastError(b)
  \/ \E b \in Batches : CommitOk(b) \/ CommitError(b)
  \/ \E b \in Batches : RollbackOk(b)

\* Calls of logTopstepTradesToDatabase made one after the other, each
\* statement succeeding or failing.
CallsNext ==
  \/ \E b \in Batches : StartAlone(b)
  \/ \E b \in Batches : BeginOk(b)
  \/ \E b \in Batches : SelectError(b)
  \/ \E b \in Batches : SelectAbsent(b)
  \/ \E b \in Batches : SelectPresent(b)
  \/ \E b \in Batches : InsertOk(b)
  \/ \E b \in Batches : InsertError(b)
  \/ \E b \in Batches : BroadcastError(b)
  \/ \E b \in Batches : CommitOk(b)
  \/ \E b \in Batches : CommitError(b)
  \/ \E b \in Batches : RollbackOk(b)
  \/ \E b \in Batches : UnhandledError(b)

Calls == Init /\ [][CallsNext]_vars

\* Every statement handed to the connection completes, with success or with
\* an error, while the process lives.
Settling == Calls /\ WF_vars(Completes)

\* C35 (every batch settles): a running logTopstepTradesToDatabase call
\* eventually resolves or rejects, whatever the outcomes of its statements
\* (a throw of broadcastNewTrade, which is not an outcome of a statement, is
\* left aside).
C35_EveryBatchSettles ==
  \A b \in Batches :
    (pc[b] = "running")
      ~> (pc[b] \in {"resolved", "rejected"} \/ cause[b] = "broadcast")

\* ------------------------------------------------------------------ C36
\* The startup chain, and the requests the server accepts once it listens.
OpeningNext ==
  \/ BootNext
  \/ \E r \in Callers : OrderRequest(r)
  \/ \E r \in Callers : OrderPlaced(r)
  \/ \E r \in Callers : OrderError(r)
  \/ \E r \in Callers : DataRequest(r)
  \/ \E r \in Callers : TradesFound(r)
  \/ \E r \in Callers : TradesMissing(r)
  \/ \E r \in Callers : TradesError(r)
  \/ \E r \in Callers : Persisted(r)
  \/ \E b \in Batches : BeginOk(b)
  \/ \E b \in Batches : UnhandledError(b)
  \/ \E b \in Batches : SelectError(b)
  \/ \E b \in Batches : SelectAbsent(b)
  \/ \E b \in Batches : SelectPresent(b)
  \/ \E b \in Batches : InsertOk(b)
  \/ \E b \in Batches : InsertError(b)
  \/ \E b \in Batches : CommitOk(b)
  \/ \E b \in Batches : CommitError(b)
  \/ \E b \in Batches : RollbackOk(b)
  \/ \E r \in Callers : ClearTrades(r)
  \/ \E r \in Callers : DeleteOk(r)
  \/ \E r \in Callers : DeleteError(r)

Opening == BootInit /\ [][OpeningNext]_vars

\* the backfill handed its trades to the persister: batch 1 was started, and
\* by no request
Backfilled == pc[1] # "idle" /\ \A r \in Reqs : req[r].batch # 1

\* the statements handed to the connection that have not completed
Pending == run \cup {dbq[k] : k \in DOMAIN dbq}

\* a statement of the startup chain: the DELETE of clearTradesTable, or a
\* statement of the backfill's batch
OfChain(s) ==
  \/ s.by = 0 /\ s.op = "DELETE" /\ s.i = 0
  \/ s.by = 1 /\ Backfilled

\* a statement of a request: the DELETE of DELETE /api/trades, or a
\* statement of a batch that a sync of a request started
OfRequest(s) ==
  \/ s.by = 0 /\ s.op = "DELETE" /\ s.i # 0
  \/ s.by # 0 /\ \E r \in Reqs : req[r].batch = s.by

\* C36 (no request-triggered operation overlaps the backfill): the server
\* listens, and a request has been accepted, only when the startup chain
\* has settled: the startup DELETE has completed and the startup function
\* has returned (phase "up"), or the DELETE failed and the chain rejected
\* (phase "exit"); the backfill's batch is not running, and when it ran the
\* backfill is marked done; and no statement of a request is on the
\* connection together with a statement of the startup chain.
C36_ListenAfterChain ==
  /\ (listening \/ \E r \in Reqs : req[r].at # "new")
       => /\ phase \in {"up", "exit"}
          /\ Backfilled => (pc[1] # "running" /\ initialSyncDone)
  /\ \A s \in Pending, t \in Pending : ~(OfRequest(s) /\ OfChain(t))

\* ------------------------------------------------------------------ C37
\* C37 (account name and id stay consistent): when no account request is in
\* flight, the stored account id is unset or the id of an account whose name
\* starts with the stored account-name prefix (requests that name a prefix).
C37_NameAndIdConsistent ==
  ( /\ \A r \in Reqs : req[r].at \in {"new", "done"}
    /\ Truthy(account)
    /\ accountName # NoName )
    => \E acc \in {Account1, Account2, Account3} :
         /\ acc.id = account
         /\ StartsWith(ToUpperCase(acc.name), ToUpperCase(accountName))

\* ------------------------------------------------------------------ C38
\* the alert's key is missing or is not the configured secret
WrongKey(alert) == Missing(alert, "key") \/ alert.key # Key

\* C38 (webhook key gate): an alert whose key is missing or differs from the
\* secret is answered 400 at once: no order request is sent for it, no sync
\* is triggered, and the step that answers leaves the table, the connection
\* and the session state as they were.
C38_KeyGate ==
  /\ [](\A r \in Reqs :
         (req[r].ep = "alert" /\ WrongKey(req[r].arg))
           => /\ req[r].at = "done"
              /\ res[r] = [status |-> 400, body |-> "key"]
              /\ req[r].sent = Unset
              /\ req[r].fwd = 0
              /\ req[r].sync = "none"
              /\ req[r].batch = 0)
  /\ [][\A r \in Reqs :
         (req[r].at = "new" /\ req'[r].ep = "alert" /\ WrongKey(req'[r].arg))
           => UNCHANGED <<ingest, boot, subs, inbox, client, accountName>>]_vars

\* ------------------------------------------------------------ the dashboard
\* the fields of tradeToInsert and of a row that always hold a text
TextFields == {"broker", "side"}

\* What the browser reads from a packet or a response body: JSON leaves out
\* a field that is undefined and writes NaN as null.
Json(p) ==
  [f \in {g \in DOMAIN p : g \in TextFields \/ p[g] # Undefined} |->
     IF f \notin TextFields /\ p[f] = NaN THEN Null ELSE p[f]]

\* trade.profitAndLoss !== null
Realized(t) == Get(t, "profitAndLoss") # Null

\* prevTrades.some(trade => same broker, orderId and creationTimestamp)
TradeExists(prevTrades, newTrade) ==
  \E i \in DOMAIN prevTrades : ClientKey(prevTrades[i]) = ClientKey(newTrade)

\* a listener that prepends whatever arrives
NewTradeListenerNoChecks(prevTrades, newTrade) == <<newTrade>> \o prevTrades

\* newTradeListener: the trades state after the 'new-trade' event newTrade
NewTradeListener(prevTrades, newTrade) ==
  IF ~Realized(newTrade) THEN prevTrades
  ELSE IF TradeExists(prevTrades, newTrade) THEN prevTrades
  ELSE <<newTrade>> \o prevTrades

\* a fetch that keeps every row of the response
FetchTradesUnfiltered(response) ==
  IF response.status = 200
  THEN [i \in DOMAIN response.body |-> Json(response.body[i])]
  ELSE <<>>

\* fetchTrades: the trades state after the response: the rows with a
\* profitAndLoss other than null, the empty list when the response is not ok
FetchTrades(response) ==
  IF response.status = 200
  THEN SelectSeq([i \in DOMAIN response.body |-> Json(response.body[i])],
                 Realized)
  ELSE <<>>

\* the socket of the dashboard
Dashboard == 1

\* socket.on('new-trade', newTradeListener): the next packet of the socket is
\* handled
Deliver ==
  /\ seen < Len(inbox[Dashboard])
  /\ view' = NewTradeListener(view, Json(inbox[Dashboard][seen + 1].trade))
  /\ seen' = seen + 1
  /\ UNCHANGED <<ingest, boot, subs, inbox, api, applied>>

\* fetchTrades is resumed with the response of GET /api/trades
FetchApply(r) ==
  /\ req[r].ep = "trades" /\ req[r].at = "done"
  /\ r \notin applied
  /\ view' = FetchTrades(res[r])
  /\ applied' = applied \cup {r}
  /\ UNCHANGED <<ingest, boot, subs, inbox, api, seen>>

\* Syncs persist their trades one after the other while the dashboard is
\* open: it connects its socket, fetches the trades and handles the events.
LiveNext ==
  \/ Connect(Dashboard)
  \/ \E b \in Batches : StartAlone(b)
  \/ \E b \in Batches : BeginOk(b)
  \/ \E b \in Batches : SelectAbsent(b)
  \/ \E b \in Batches : SelectPresent(b)
  \/ \E b \in Batches : InsertOk(b)
  \/ \E b \in Batches : CommitOk(b)
  \/ \E r \in Callers : ListTrades(r)
  \/ \E r \in Callers : ListOk(r)
  \/ \E r \in Callers : ListError(r)
  \/ Deliver
  \/ \E r \in Callers : FetchApply(r)

Live == Init /\ [][LiveNext]_vars

\* ------------------------------------------------------------------ C39
\* payloads a 'new-trade' packet or a row of a response may carry: trades
\* with a P&L, with a null P&L and without the field, two of them differing
\* in the account only, one of another broker
Payloads ==
  {Json(TradeToInsert(t)) : t \in {T1, T2, T3, T4}}
    \cup {[Json(TradeToInsert(T1)) EXCEPT !.broker = "kraken"]}

\* a 'new-trade' packet with payload p reaches the socket of the dashboard
\* and the listener handles it; the inbox holds the packet handled last
Receive(p) ==
  /\ seen < MaxEvents
  /\ inbox' = [inbox EXCEPT ![Dashboard] = <<[k |-> seen + 1, trade |-> p]>>]
  /\ view' = NewTradeListener(view, p)
  /\ seen' = seen + 1
  /\ UNCHANGED <<ingest, boot, subs, api, applied>>

\* fetchTrades is resumed with a response: an array of rows, or a failure
Loaded ==
  /\ \/ \E data \in SeqsUpTo(Payloads, MaxRows) :
          view' = FetchTrades([status |-> 200, body |-> data])
     \/ view' = FetchTrades([status |-> 500, body |-> "error"])
  /\ UNCHANGED <<ingest, boot, subs, inbox, api, seen, applied>>

\* The dashboard alone: any response and any packet may reach it.
ClientNext ==
  \/ \E p \in Payloads : Receive(p)
  \/ Loaded

Client == Init /\ [][ClientNext]_vars

\* ------------------------------------------------------------------ C31
\* C31 (dashboard shows only realized trades): whatever responses and
\* 'new-trade' events the dashboard is handed, no trade of its list has
\* profitAndLoss = null, and an event with a null P&L leaves the list
\* unchanged.
C31_OnlyRealizedShown ==
  /\ [](\A i \in DOMAIN view : Get(view[i], "profitAndLoss") # Null)
  /\ [][\A p \in Payloads :
         (Receive(p) /\ Get(p, "profitAndLoss") = Null) => view' = view]_vars

\* reached: the list holds trades, and the last event handled carried a
\* null P&L
C31_Witness ==
  /\ seen = MaxEvents
  /\ Len(view) > 0
  /\ Get(inbox[Dashboard][1].trade, "profitAndLoss") = Null

\* no two entries of the list have the same (broker, orderId,
\* creationTimestamp)
DuplicateFree(list) ==
  \A i \in DOMAIN list, j \in DOMAIN list :
    i # j => ClientKey(list[i]) # ClientKey(list[j])

\* C39 as stated: an event applied to a duplicate-free list leaves it
\* duplicate-free; an event for a key of the list leaves the list unchanged
\* and an event for a new key is prepended.
C39_ClientDedup ==
  [][\A p \in Payloads :
       (DuplicateFree(view) /\ Receive(p))
         => /\ DuplicateFree(view')
            /\ IF TradeExists(view, p) THEN view' = view
               ELSE view' = <<p>> \o view]_vars

\* C39 (client-side dedup), amended: an event applied to a duplicate-free
\* list leaves it duplicate-free; an event for a key of the list, or with a
\* null P&L, leaves the list unchanged, and an event for a new key whose P&L
\* is not null is prepended.
C39_ClientDedupRealized ==
  [][\A p \in Payloads :
       (DuplicateFree(view) /\ Receive(p))
         => /\ DuplicateFree(view')
            /\ IF TradeExists(view, p) \/ Get(p, "profitAndLoss") = Null
               THEN view' = view
               ELSE view' = <<p>> \o view]_vars

\* reached: the packets handled left a duplicate-free list of more entries
\* than a response holds
C39_Witness ==
  /\ seen = MaxEvents
  /\ Len(view) > MaxRows
  /\ DuplicateFree(view)

\* ------------------------------------------------------------------ C40
\* the list holds an entry with the key of trade x
Shown(list, x) == TradeExists(list, x)

\* C40 (no live trade is lost on the client): when the response of a fetch
\* is applied, a trade with a P&L that a 'new-trade' event had put into the
\* list and that the response does not hold (its row was inserted after the
\* rows were read; no row is ever removed here) is still in the list.
C40_NoLiveTradeLost ==
  [][\A r \in Reqs :
       (r \notin applied /\ r \in applied' /\ res[r].status = 200)
         => \A k \in 1..seen :
              LET x == Json(inbox[Dashboard][k].trade)
              IN  ( /\ Get(x, "profitAndLoss") \notin {Null, Undefined}
                    /\ Shown(view, x)
                    /\ ~Shown(res[r].body, x) )
                    => Shown(view', x)]_vars

====
